---- MODULE Spec2Model ----
(***************************************************************************)
(* A model of the reactive core of the Ghostty Discord bot:                *)
(*   - the owner cache (app/components/entity_mentions/resolution.py) on   *)
(*     top of the time-to-refresh cache it specialises;                    *)
(*   - the message link registry MessageLinker (app/utils/hooks.py);       *)
(*   - the reaction pipeline: the edit and delete handlers of              *)
(*     app/utils/hooks.py with the comment feature's create path, and the  *)
(*     code block feature's own handlers (app/components/zig_codeblocks.py).*)
(*   - the signature parser resolve_repo_signatures and the owner lookup   *)
(*     find_repo_owner (app/components/entity_mentions/resolution.py);     *)
(*   - the emoji loader GhosttyBot.load_emojis (app/bot.py).               *)
(* Each has its own specification (SpecCache, SpecLinker, SpecHooks,       *)
(* SpecZig, SpecRace, SpecFrozen, SpecReplies, SpecParser, SpecResolver,   *)
(* SpecEmojis); the variables of the other components are left unchanged.  *)
(***************************************************************************)
EXTENDS Integers, Sequences, FiniteSets, TLC

VARIABLES
    cache,      \* TTRCache._cache: repo name -> [value, at]
    clock,      \* the wall clock the cache reads, in ticks of half an hour
    inflight,   \* the fetches awaiting the remote search: {[id, key]}
    started,    \* number of fetches started so far (the id of the last one)
    callers,    \* per caller of get: [pc, key, fut, result]
    lastFetch,  \* the fetch that completed last: [id, key, outcome]
    refs,       \* MessageLinker._refs, in insertion order: <<[key, replies]>>
    now,        \* the wall clock the registry reads, in ticks of 24 hours
    sent,       \* number of replies the platform has created so far
    lastCall,   \* the registry call made last: [op, raised, ret]; raised "" if it returned
    content,    \* per user message: its text [raw, count, live], NoContent before it is posted
    posted,     \* per reply the platform created: [shows, view, created_at, edited_at, deleted]
    tasks,      \* per user event, its handler task: [kind, pc, msg, before, after, reply, replies, i, alias, path]
    events,     \* the bot's messages whose delete event is still to be dispatched
    dispatched, \* number of user events the platform has dispatched so far
    frozen,     \* the user messages the code block feature has frozen
    text,       \* message.content of the message the parser scans, a sequence of characters
    scan,       \* the position finditer goes on from
    match,      \* the match of the turn of the loop the generator is in
    yielded,    \* the signatures the generator has yielded so far
    valid_signatures, \* the generator's counter of that name
    gen,        \* where the generator is: idle, scan, edit, get, exhausted, raised
    edits,      \* number of message.edit(suppress=True) calls the generator made
    resolved,   \* the repository names owner_cache holds an owner for
    search,     \* the remote search of OwnerCache.fetch: [pc, name, resp, outcome]
    emojis_loaded,      \* GhosttyBot.emojis_loaded: is the event set
    ghostty_emojis,     \* GhosttyBot._ghostty_emojis: name -> emoji id or Missing
    application_emojis, \* the application emojis on the platform: {[id, name, image]}
    emoji_ids,          \* the ids the platform has handed out to emojis
    loader      \* load_emojis: [pc, fetched, queue, names, log, at, loads]

cacheVars == <<cache, clock, inflight, started, callers, lastFetch>>
linkerVars == <<refs, now, sent, lastCall>>
hookVars == <<content, posted, tasks, events, dispatched, frozen>>
generatorVars ==
    <<text, scan, match, yielded, valid_signatures, gen, edits, resolved>>
parserVars == <<generatorVars, search>>
emojiVars ==
    <<emojis_loaded, ghostty_emojis, application_emojis, emoji_ids, loader>>
vars == <<cache, clock, inflight, started, callers, lastFetch,
          refs, now, sent, lastCall,
          content, posted, tasks, events, dispatched, frozen,
          text, scan, match, yielded, valid_signatures, gen, edits, resolved,
          search,
          emojis_loaded, ghostty_emojis, application_emojis, emoji_ids, loader>>

----------------------------------------------------------------------------
(* Bounds of the model.                                                    *)

NumCallers == 2
MaxFetches == 2
MaxClock == 2
MaxResults == 2
NumOriginals == 2
MaxReplies == 3
MaxLinkArgs == 2
MaxNow == 2
MaxEvents == 2
MaxWords == 2
MaxRepeat == 11
MaxLoads == 2
MaxEmojiId == 7

(* Sample data: repository names looked up, and the logins owning them.    *)
RepoNames == {"uv", "ixia"}
Logins == {"astral-sh", "trag1c"}
NoOwner == "None"

Callers == 1..NumCallers

(* Message identities: user messages, and the replies the bot sends, which  *)
(* the platform numbers as it creates them. None stands for Python's None.  *)
Originals == 1..NumOriginals
ReplyId(n) == 100 + n
ReplyIds == {ReplyId(n) : n \in 1..MaxReplies}
None == -1

----------------------------------------------------------------------------
(* The owner cache.                                                        *)

\* owner_cache = OwnerCache(hours=1)
OwnerCacheHours == 1

\* The refresh time in ticks of half an hour.
Ttr == OwnerCacheHours * 2

\* What the remote repository search can answer: a request failure (ok is
\* FALSE), or up to MaxResults items {name, owner}, the owner possibly missing.
SearchItems == [name : RepoNames, owner : Logins \cup {NoOwner}]

RECURSIVE SeqsUpTo(_, _)
SeqsUpTo(S, n) ==
    IF n = 0 THEN {<<>>}
    ELSE LET shorter == SeqsUpTo(S, n - 1)
         IN  shorter \cup {Append(s, x) : s \in {t \in shorter : Len(t) = n - 1}, x \in S}

Responses ==
    {[ok |-> TRUE, items |-> s] : s \in SeqsUpTo(SearchItems, MaxResults)}
        \cup {[ok |-> FALSE, items |-> <<>>]}

IsFailure(outcome) == outcome \in {"RequestFailed", "RuntimeError"}

\* A variant that takes the last such item instead of the first.
find_repo_owner_last(name, resp) ==
    IF ~resp.ok THEN "RequestFailed"
    ELSE LET items == resp.items
             hits == {i \in 1..Len(items) :
                        items[i].name = name /\ items[i].owner # NoOwner}
         IN  IF hits = {} THEN "RuntimeError"
             ELSE items[CHOOSE i \in hits : \A j \in hits : i >= j].owner

\* find_repo_owner: the owner of the first item whose name is the requested
\* one and which has an owner; next() without a default raises StopIteration
\* when there is none, which a coroutine turns into RuntimeError.
find_repo_owner(name, resp) ==
    IF ~resp.ok THEN "RequestFailed"
    ELSE LET items == resp.items
             hits == {i \in 1..Len(items) :
                        items[i].name = name /\ items[i].owner # NoOwner}
         IN  IF hits = {} THEN "RuntimeError"
             ELSE items[CHOOSE i \in hits : \A j \in hits : i <= j].owner

\* OwnerCache.fetch: self[key] = await find_repo_owner(key). The assignment
\* runs only when the await returns, and stamps the entry with the time.
fetchInstallsAlways(c, key, outcome, t) ==
    (key :> [value |-> outcome, at |-> t]) @@ c

fetch(c, key, outcome, t) ==
    IF IsFailure(outcome) THEN c
    ELSE (key :> [value |-> outcome, at |-> t]) @@ c

\* An entry is served without I/O while it is younger than the refresh time.
FreshAlways(c, key, t) == key \in DOMAIN c

Fresh(c, key, t) == key \in DOMAIN c /\ t - c[key].at < Ttr

\* The fetches a get for key can share instead of starting its own.
JoinableNone(key) == {}

Joinable(key) == {f \in inflight : f.key = key}

Idle == [pc |-> "idle", key |-> "", fut |-> 0, result |-> ""]

\* What a caller awaiting fetch id observes when it completes with outcome.
DeliverStale(cs, id, outcome) ==
    [c \in Callers |->
        IF cs[c].pc = "waiting" /\ cs[c].fut = id
        THEN IF IsFailure(outcome) /\ cs[c].key \in DOMAIN cache
             THEN [cs[c] EXCEPT !.pc = "returned", !.result = cache[cs[c].key].value]
             ELSE [cs[c] EXCEPT !.pc = IF IsFailure(outcome) THEN "raised" ELSE "returned",
                                !.result = outcome]
        ELSE cs[c]]

Deliver(cs, id, outcome) ==
    [c \in Callers |->
        IF cs[c].pc = "waiting" /\ cs[c].fut = id
        THEN [cs[c] EXCEPT !.pc = IF IsFailure(outcome) THEN "raised" ELSE "returned",
                           !.result = outcome]
        ELSE cs[c]]

\* get(key), up to its first suspension point.
Get(c, key) ==
    /\ callers[c].pc # "waiting"
    /\ IF Fresh(cache, key, clock)
       THEN /\ callers' = [callers EXCEPT ![c] =
                    [pc |-> "returned", key |-> key, fut |-> 0,
                     result |-> cache[key].value]]
            /\ UNCHANGED <<inflight, started>>
       ELSE IF Joinable(key) # {}
       THEN /\ \E f \in Joinable(key) :
                    callers' = [callers EXCEPT ![c] =
                        [pc |-> "waiting", key |-> key, fut |-> f.id, result |-> ""]]
            /\ UNCHANGED <<inflight, started>>
       ELSE /\ started < MaxFetches
            /\ started' = started + 1
            /\ inflight' = inflight \cup {[id |-> started + 1, key |-> key]}
            /\ callers' = [callers EXCEPT ![c] =
                    [pc |-> "waiting", key |-> key, fut |-> started + 1, result |-> ""]]
    /\ UNCHANGED <<cache, clock, lastFetch>>
    /\ UNCHANGED <<linkerVars, hookVars, parserVars, emojiVars>>

\* What find_repo_owner(key) can end with, over all answers of the remote.
Outcomes(key) == {find_repo_owner(key, resp) : resp \in Responses}

\* The remote search answers fetch f; the fetch ends and its waiters resume.
FetchDone(f, outcome) ==
    /\ f \in inflight
    /\ cache' = fetch(cache, f.key, outcome, clock)
    /\ callers' = Deliver(callers, f.id, outcome)
    /\ lastFetch' = [id |-> f.id, key |-> f.key, outcome |-> outcome]
    /\ inflight' = inflight \ {f}
    /\ UNCHANGED <<clock, started>>
    /\ UNCHANGED <<linkerVars, hookVars, parserVars, emojiVars>>

Tick ==
    /\ clock < MaxClock
    /\ clock' = clock + 1
    /\ UNCHANGED <<cache, inflight, started, callers, lastFetch>>
    /\ UNCHANGED <<linkerVars, hookVars, parserVars, emojiVars>>

\* OwnerCache.fetch(key) on its own, with the answer of the search kept:
\* the call up to `await gh.rest.search.async_repos(q=name, ...)`.
NoSearch == [pc |-> "idle", name |-> "", resp |-> <<>>, outcome |-> ""]

OwnerCache_fetch(key) ==
    /\ search.pc # "searching"
    /\ search' = [pc |-> "searching", name |-> key, resp |-> <<>>,
                  outcome |-> ""]
    /\ UNCHANGED <<cacheVars, linkerVars, hookVars, generatorVars, emojiVars>>

\* The search answers resp; find_repo_owner returns or raises, and fetch
\* assigns self[key] when it returned.
async_repos(resp) ==
    /\ search.pc = "searching"
    /\ LET outcome == find_repo_owner(search.name, resp)
       IN  /\ search' = [pc |-> "done", name |-> search.name, resp |-> resp,
                         outcome |-> outcome]
           /\ cache' = fetch(cache, search.name, outcome, clock)
    /\ UNCHANGED <<clock, inflight, started, callers, lastFetch>>
    /\ UNCHANGED <<linkerVars, hookVars, generatorVars, emojiVars>>

----------------------------------------------------------------------------
(* The message link registry.                                              *)

Range(seq) == {seq[i] : i \in 1..Len(seq)}
Keys(r) == {r[i].key : i \in 1..Len(r)}
Index(r, key) == CHOOSE i \in 1..Len(r) : r[i].key = key
Remove(r, i) == SubSeq(r, 1, i - 1) \o SubSeq(r, i + 1, Len(r))

\* The replies stored for a message, read without touching the mapping.
Stored(r, original) ==
    IF original \in Keys(r) THEN r[Index(r, original)].replies ELSE <<>>

\* defaultdict(list).__getitem__: a missing key is inserted with an empty list.
getitem(r, original) ==
    IF original \in Keys(r) THEN r ELSE Append(r, [key |-> original, replies |-> <<>>])

\* MessageLinker.get: return self._refs[original]
get(r, original) ==
    [refs |-> getitem(r, original), ret |-> Stored(r, original)]

\* MessageLinker.link: self._refs[original].extend(replies)
linkAll(r, original, replies) ==
    LET g == getitem(r, original)
    IN  [i \in 1..Len(g) |-> [g[i] EXCEPT !.replies = @ \o replies]]

linkReplace(r, original, replies) ==
    LET g == getitem(r, original)
    IN  [g EXCEPT ![Index(g, original)].replies = replies]

link(r, original, replies) ==
    LET g == getitem(r, original)
    IN  [g EXCEPT ![Index(g, original)].replies = @ \o replies]

\* MessageLinker.unlink: del self._refs[original], a KeyError when missing.
unlink_never(r, original) == [refs |-> r, raised |-> ""]

unlink(r, original) ==
    IF original \in Keys(r)
    THEN [refs |-> Remove(r, Index(r, original)), raised |-> ""]
    ELSE [refs |-> r, raised |-> "KeyError"]

\* MessageLinker.get_original_message: the first key, in the mapping's order,
\* whose list holds the reply.
get_original_message_any(r, reply) ==
    IF r = <<>> THEN None ELSE r[1].key

get_original_message(r, reply) ==
    LET hits == {i \in 1..Len(r) : reply \in Range(r[i].replies)}
    IN  IF hits = {} THEN None
        ELSE r[CHOOSE i \in hits : \A j \in hits : i <= j].key

\* MessageLinker.unlink_from_reply
unlink_from_reply_only(r, reply) ==
    LET original == get_original_message(r, reply)
    IN  IF original # None
        THEN [refs |-> [i \in 1..Len(r) |->
                            [r[i] EXCEPT !.replies = SelectSeq(@, LAMBDA x : x # reply)]],
              raised |-> ""]
        ELSE [refs |-> r, raised |-> ""]

unlink_from_reply(r, reply) ==
    LET original == get_original_message(r, reply)
    IN  IF original # None THEN unlink(r, original)
        ELSE [refs |-> r, raised |-> ""]

\* dt.timedelta(hours=24)
ExpiryHours == 24

\* MessageLinker.unlink_if_expired, for a reply with timestamps st at time t.
\* A variant that takes exactly 24 hours for expired and looks at the
\* creation time only.
unlink_if_expired_created(r, reply, st, t) ==
    IF (t - st.created_at) * 24 >= ExpiryHours
    THEN [refs |-> unlink_from_reply(r, reply).refs,
          raised |-> unlink_from_reply(r, reply).raised, ret |-> TRUE]
    ELSE [refs |-> r, raised |-> "", ret |-> FALSE]

unlink_if_expired(r, reply, st, t) ==
    LET last_updated == IF st.edited_at # None THEN st.edited_at ELSE st.created_at
    IN  IF (t - last_updated) * 24 > ExpiryHours
        THEN [refs |-> unlink_from_reply(r, reply).refs,
              raised |-> unlink_from_reply(r, reply).raised, ret |-> TRUE]
        ELSE [refs |-> r, raised |-> "", ret |-> FALSE]

\* The timestamps a reply passed in at time t can carry: created no later
\* than t, and either never edited or edited since.
StampsAt(t) ==
    {st \in [created_at : 0..t, edited_at : {None} \cup 0..t] :
        st.edited_at = None \/ st.edited_at >= st.created_at}

Existing == {ReplyId(n) : n \in 1..sent}

CallGet(original) ==
    /\ refs' = get(refs, original).refs
    /\ lastCall' = [op |-> "get", raised |-> "", ret |-> FALSE]
    /\ UNCHANGED <<now, sent>>
    /\ UNCHANGED <<cacheVars, hookVars, parserVars, emojiVars>>

\* The bot sends n replies to original (message.reply) and links them.
CallLink(original, n) ==
    /\ sent + n <= MaxReplies
    /\ LET replies == [i \in 1..n |-> ReplyId(sent + i)]
       IN  /\ refs' = link(refs, original, replies)
           /\ lastCall' = [op |-> "link", raised |-> "", ret |-> FALSE]
    /\ sent' = sent + n
    /\ UNCHANGED now
    /\ UNCHANGED <<cacheVars, hookVars, parserVars, emojiVars>>

CallUnlink(original) ==
    /\ refs' = unlink(refs, original).refs
    /\ lastCall' = [op |-> "unlink", raised |-> unlink(refs, original).raised,
                   ret |-> FALSE]
    /\ UNCHANGED <<now, sent>>
    /\ UNCHANGED <<cacheVars, hookVars, parserVars, emojiVars>>

CallGetOriginalMessage(m) ==
    /\ lastCall' = [op |-> "get_original_message", raised |-> "",
                   ret |-> FALSE]
    /\ UNCHANGED <<refs, now, sent>>
    /\ UNCHANGED <<cacheVars, hookVars, parserVars, emojiVars>>

CallUnlinkFromReply(m) ==
    /\ refs' = unlink_from_reply(refs, m).refs
    /\ lastCall' = [op |-> "unlink_from_reply",
                    raised |-> unlink_from_reply(refs, m).raised,
                    ret |-> FALSE]
    /\ UNCHANGED <<now, sent>>
    /\ UNCHANGED <<cacheVars, hookVars, parserVars, emojiVars>>

CallUnlinkIfExpired(m, st) ==
    /\ LET res == unlink_if_expired(refs, m, st, now)
       IN  /\ refs' = res.refs
           /\ lastCall' = [op |-> "unlink_if_expired", raised |-> res.raised,
                          ret |-> res.ret]
    /\ UNCHANGED <<now, sent>>
    /\ UNCHANGED <<cacheVars, hookVars, parserVars, emojiVars>>

LinkerTick ==
    /\ now < MaxNow
    /\ now' = now + 1
    /\ UNCHANGED <<refs, sent, lastCall>>
    /\ UNCHANGED <<cacheVars, hookVars, parserVars, emojiVars>>

----------------------------------------------------------------------------
(* The reaction pipeline: the handlers made by create_edit_hook and        *)
(* create_delete_hook (app/utils/hooks.py) around the comment feature's    *)
(* create path reply_with_comments, run as cooperatively scheduled tasks.  *)
(* A task runs from one await to the next in one step; the platform call   *)
(* it awaits is answered, or fails, in a later step.  Every user event     *)
(* starts the handler task numbered like the event.                        *)

\* A message text is identified by its wording and by the item count the
\* content processor derives from it; two wordings with the same count have
\* the same processed content.  A negative count is a processor's sentinel.
Wordings == {"a", "b"}
ItemCounts == {-1, 0, 1, 2}
NoContent == [raw |-> "", count |-> 0, live |-> FALSE]
Contents ==
    {c \in [raw : Wordings, count : ItemCounts, live : {TRUE}] :
        c.raw = "b" => c.count = 1}

\* The texts of new messages: which wording comes first makes no difference.
FirstTexts == {c \in Contents : c.raw = "a"}

\* message_processor(message): the processed content and its item count.
message_processor(c) == [objects |-> c.count, count |-> c.count]

\* before.content == after.content
SameText(c, d) == c.raw = d.raw /\ c.count = d.count

\* One handler task per user event; the runs of one original alone dispatch
\* one event more than the runs over all originals.
Tasks == 1..(MaxEvents + 1)
IdleTask ==
    [kind |-> "", pc |-> "idle", msg |-> 0, before |-> NoContent,
     after |-> NoContent, reply |-> 0, replies |-> <<>>, i |-> 0,
     alias |-> FALSE, path |-> ""]

\* The task of the handler the next user event starts.
Slot == dispatched + 1
Started(kind, o) == [IdleTask EXCEPT !.kind = kind, !.msg = o]

\* A handler that is over keeps what it was about and the way it ended:
\* the return it took, or "raised" when an exception escaped it.
Done(task, path) ==
    [IdleTask EXCEPT !.kind = task.kind, !.msg = task.msg,
                     !.reply = task.reply, !.replies = task.replies,
                     !.pc = "done", !.path = path]

\* posted holds every reply the platform ever created; a deleted one keeps
\* only the timestamps the bot's message object still carries.
Posted(m) == m \in DOMAIN posted /\ ~posted[m].deleted
NotDeleted(p, m) == p
Deleted(p, m) ==
    [p EXCEPT ![m] = [shows |-> 0, view |-> FALSE, created_at |-> @.created_at,
                      edited_at |-> @.edited_at, deleted |-> TRUE]]
Live(o) == content[o].live

\* What a platform call on a message can answer.
PlatformOutcomes(exists) ==
    IF exists THEN {"ok", "HTTPException"} ELSE {"NotFound"}

\* The list a delete handler iterates is the registry's own list object:
\* extending the entry extends it, deleting the entry leaves it as it was.
Extended(ts, original, replies) ==
    [t \in Tasks |->
        IF ts[t].alias /\ ts[t].msg = original
        THEN [ts[t] EXCEPT !.replies = @ \o replies] ELSE ts[t]]

Detached(ts, original) ==
    [t \in Tasks |->
        IF ts[t].alias /\ ts[t].msg = original
        THEN [ts[t] EXCEPT !.alias = FALSE] ELSE ts[t]]

DetachedIf(ts, r, m) ==
    IF get_original_message(r, m) = None THEN ts
    ELSE Detached(ts, get_original_message(r, m))

\* The frame of a pipeline step: the cache and the registry's call log.
PipelineFrame == UNCHANGED <<cacheVars, lastCall, frozen, parserVars, emojiVars>>
UserEvent == Slot \in Tasks /\ dispatched' = dispatched + 1
NoUserEvent == UNCHANGED dispatched

\* on_message for a new user message: reply_with_comments(message) up to
\* its first await, the collection of the comments the text mentions.
reply_with_comments(o, c) ==
    /\ content[o] = NoContent
    /\ \A p \in Originals : p < o => content[p] # NoContent
    /\ content' = [content EXCEPT ![o] = c]
    /\ tasks' = [tasks EXCEPT ![Slot] =
            [Started("create", o) EXCEPT !.pc = "embeds", !.after = c]]
    /\ UNCHANGED <<refs, now, sent, posted, events>>
    /\ UserEvent
    /\ PipelineFrame

\* The comments are collected: `if not embeds: return`, else message.reply
\* is awaited.
reply_with_comments_embeds(t) ==
    /\ tasks[t].pc = "embeds"
    /\ tasks' = [tasks EXCEPT ![t] =
            IF message_processor(@.after).count <= 0
            THEN Done(@, "no_embeds")
            ELSE [@ EXCEPT !.pc = "reply"]]
    /\ UNCHANGED <<refs, now, sent, posted, events, content>>
    /\ NoUserEvent
    /\ PipelineFrame

\* A variant that swallows a failure of message.reply.
reply_with_comments_sent_quiet(t, outcome) ==
    /\ tasks[t].pc = "reply"
    /\ outcome \in PlatformOutcomes(Live(tasks[t].msg))
    /\ outcome # "ok"
    /\ tasks' = [tasks EXCEPT ![t] = Done(@, "no_embeds")]
    /\ UNCHANGED <<refs, now, sent, posted, events, content>>
    /\ NoUserEvent
    /\ PipelineFrame

\* message.reply answered: the reply exists, and message.edit(suppress=True)
\* is awaited; a failure escapes the handler.
reply_with_comments_sent(t, outcome) ==
    /\ tasks[t].pc = "reply"
    /\ outcome \in PlatformOutcomes(Live(tasks[t].msg))
    /\ IF outcome = "ok"
       THEN /\ sent' = sent + 1
            /\ posted' = [m \in DOMAIN posted \cup {ReplyId(sent + 1)} |->
                    IF m = ReplyId(sent + 1)
                    THEN [shows |-> message_processor(tasks[t].after).objects,
                          view |-> TRUE, created_at |-> now, edited_at |-> None,
                          deleted |-> FALSE]
                    ELSE posted[m]]
            /\ tasks' = [tasks EXCEPT ![t].pc = "suppress",
                                      ![t].reply = ReplyId(sent + 1)]
       ELSE /\ tasks' = [tasks EXCEPT ![t] = Done(@, "raised")]
            /\ UNCHANGED <<sent, posted>>
    /\ UNCHANGED <<refs, now, events, content>>
    /\ NoUserEvent
    /\ PipelineFrame

\* message.edit(suppress=True) answered: comment_linker.link(message,
\* sent_message), then remove_view_after_timeout sleeps.
reply_with_comments_suppressed(t, outcome) ==
    /\ tasks[t].pc = "suppress"
    /\ outcome \in PlatformOutcomes(Live(tasks[t].msg))
    /\ IF outcome = "ok"
       THEN /\ refs' = link(refs, tasks[t].msg, <<tasks[t].reply>>)
            /\ tasks' = [Extended(tasks, tasks[t].msg, <<tasks[t].reply>>)
                            EXCEPT ![t].pc = "sleep"]
       ELSE /\ tasks' = [tasks EXCEPT ![t] = Done(@, "raised")]
            /\ UNCHANGED refs
    /\ UNCHANGED <<now, sent, posted, events, content>>
    /\ NoUserEvent
    /\ PipelineFrame

\* remove_view_after_timeout after its sleep: message.edit(view=None) with
\* NotFound and HTTPException suppressed; the handler returns.
remove_view_after_timeout(t, outcome) ==
    /\ tasks[t].pc \in {"sleep", "edit_sleep"}
    /\ outcome \in PlatformOutcomes(Posted(tasks[t].reply))
    /\ posted' = IF outcome = "ok"
                 THEN [posted EXCEPT ![tasks[t].reply].view = FALSE]
                 ELSE posted
    /\ tasks' = [tasks EXCEPT ![t] =
            Done(@, IF @.pc = "sleep" THEN "replied" ELSE "edited")]
    /\ UNCHANGED <<refs, now, sent, events, content>>
    /\ NoUserEvent
    /\ PipelineFrame

\* A variant that processes the message whether or not its text changed.
edit_hook_unconditional(o, c) ==
    /\ Live(o)
    /\ content' = [content EXCEPT ![o] = c]
    /\ tasks' = [tasks EXCEPT ![Slot] =
            [Started("edit", o) EXCEPT !.pc = "old_objects",
                                       !.before = content[o]]]
    /\ UNCHANGED <<refs, now, sent, posted, events>>
    /\ UserEvent
    /\ PipelineFrame

\* on_message_edit: edit_hook(before, after) up to its first await.  before
\* is a copy of the message as it was, after is the message itself.
edit_hook(o, c) ==
    /\ Live(o)
    /\ content' = [content EXCEPT ![o] = c]
    /\ tasks' = [tasks EXCEPT ![Slot] =
            IF SameText(content[o], c)
            THEN Done(Started("edit", o), "same_content")
            ELSE [Started("edit", o) EXCEPT !.pc = "old_objects",
                                            !.before = content[o]]]
    /\ UNCHANGED <<refs, now, sent, posted, events>>
    /\ UserEvent
    /\ PipelineFrame

\* old_objects = await message_processor(before) answered;
\* message_processor(after) starts on the text the message has by now.
edit_hook_old_objects(t) ==
    /\ tasks[t].pc = "old_objects"
    /\ tasks' = [tasks EXCEPT ![t].pc = "new_objects",
                              ![t].after = content[tasks[t].msg]]
    /\ UNCHANGED <<refs, now, sent, posted, events, content>>
    /\ NoUserEvent
    /\ PipelineFrame

\* A variant that falls back on a reply it remembers when the lookup finds
\* the original untracked.
edit_hook_body_stale(r, ts, t, p, at) ==
    LET before == ts[t].msg
        former == {m \in DOMAIN p : \E u \in Tasks \ {t} :
                        ts[u].msg = before /\ ts[u].reply = m}
    IN  IF Stored(r, before) = <<>> /\ former # {}
        THEN [refs |-> r,
              tasks |-> [ts EXCEPT ![t].pc = "edit",
                                   ![t].reply = CHOOSE m \in former : TRUE]]
        ELSE [refs |-> r, tasks |-> [ts EXCEPT ![t] = Done(@, "same_objects")]]

\* The rest of edit_hook once both contents are processed, up to its next
\* await or its return: r is the registry, ts the tasks, t the handler's.
\* Yields the registry and the tasks it leaves.
edit_hook_body(r, ts, t, p, at) ==
    LET before == ts[t].msg
        old_objects == message_processor(ts[t].before)
        new_objects == message_processor(ts[t].after)
        replies == get(r, before).ret
        reply == replies[1]
        count == new_objects.count
        expiry == unlink_if_expired(r, reply, p[reply], at)
    IN  IF old_objects = new_objects
        THEN [refs |-> r, tasks |-> [ts EXCEPT ![t] = Done(@, "same_objects")]]
        ELSE IF replies = <<>>
        THEN [refs |-> get(r, before).refs,
              tasks |-> [ts EXCEPT ![t] =
                    IF old_objects.count = 0
                    THEN \* await interactor(after)
                         [@ EXCEPT !.pc = "embeds", !.after = content[before]]
                    ELSE Done(@, "untracked")]]
        ELSE IF count = 0
        THEN [refs |-> unlink(r, before).refs,
              tasks |-> [Detached(ts, before) EXCEPT
                            ![t].pc = "delete", ![t].reply = reply]]
        ELSE IF expiry.ret
        THEN [refs |-> expiry.refs,
              tasks |-> [DetachedIf(ts, r, reply) EXCEPT
                            ![t] = Done(@, "expired")]]
        ELSE [refs |-> r,
              tasks |-> [ts EXCEPT ![t].pc = "edit", ![t].reply = reply]]

\* new_objects = await message_processor(after) answered.
edit_hook_new_objects(t) ==
    /\ tasks[t].pc = "new_objects"
    /\ refs' = edit_hook_body(refs, tasks, t, posted, now).refs
    /\ tasks' = edit_hook_body(refs, tasks, t, posted, now).tasks
    /\ UNCHANGED <<now, sent, posted, events, content>>
    /\ NoUserEvent
    /\ PipelineFrame

\* await reply.delete() answered; deleting a message makes the platform
\* dispatch its delete event.
edit_hook_deleted(t, outcome) ==
    /\ tasks[t].pc = "delete"
    /\ outcome \in PlatformOutcomes(Posted(tasks[t].reply))
    /\ IF outcome = "ok"
       THEN /\ posted' = Deleted(posted, tasks[t].reply)
            /\ events' = events \cup {tasks[t].reply}
            /\ tasks' = [tasks EXCEPT ![t] = Done(@, "emptied")]
       ELSE /\ tasks' = [tasks EXCEPT ![t] = Done(@, "raised")]
            /\ UNCHANGED <<posted, events>>
    /\ UNCHANGED <<refs, now, sent, content>>
    /\ NoUserEvent
    /\ PipelineFrame

NotEdited(p, reply, objects, at) == p

\* What reply.edit(...) makes of the reply: the new content under a new view.
Edited(p, reply, objects, at) ==
    [p EXCEPT ![reply] =
        [shows |-> objects, view |-> TRUE, created_at |-> @.created_at,
         edited_at |-> at, deleted |-> FALSE]]

\* await reply.edit(...) answered; remove_view_after_timeout sleeps.
edit_hook_edited(t, outcome) ==
    /\ tasks[t].pc = "edit"
    /\ outcome \in PlatformOutcomes(Posted(tasks[t].reply))
    /\ IF outcome = "ok"
       THEN /\ posted' = Edited(posted, tasks[t].reply,
                                message_processor(tasks[t].after).objects, now)
            /\ tasks' = [tasks EXCEPT ![t].pc = "edit_sleep"]
       ELSE /\ tasks' = [tasks EXCEPT ![t] = Done(@, "raised")]
            /\ UNCHANGED posted
    /\ UNCHANGED <<refs, now, sent, events, content>>
    /\ NoUserEvent
    /\ PipelineFrame

\* on_message_delete for a user's message: delete_hook(message) up to the
\* first reply.delete() it awaits.
delete_hook(o) ==
    /\ Live(o)
    /\ content' = [content EXCEPT ![o].live = FALSE]
    /\ refs' = get(refs, o).refs
    /\ tasks' = [tasks EXCEPT ![Slot] =
            IF get(refs, o).ret = <<>>
            THEN Done(Started("delete", o), "no_replies")
            ELSE [Started("delete", o) EXCEPT !.pc = "delete_reply",
                    !.replies = get(refs, o).ret, !.i = 1, !.alias = TRUE]]
    /\ UNCHANGED <<now, sent, posted, events>>
    /\ UserEvent
    /\ PipelineFrame

\* await reply.delete() in the loop answered: on to the next reply of the
\* list, or out of the loop; a failure escapes the handler.
delete_hook_reply_deleted(t, outcome) ==
    /\ tasks[t].pc = "delete_reply"
    /\ LET reply == tasks[t].replies[tasks[t].i]
       IN  /\ outcome \in PlatformOutcomes(Posted(reply))
           /\ IF outcome = "ok"
              THEN /\ posted' = Deleted(posted, reply)
                   /\ events' = events \cup {reply}
                   /\ tasks' = [tasks EXCEPT ![t] =
                        IF @.i = Len(@.replies) THEN Done(@, "deleted")
                        ELSE [@ EXCEPT !.i = @ + 1]]
              ELSE /\ tasks' = [tasks EXCEPT ![t] = Done(@, "raised")]
                   /\ UNCHANGED <<posted, events>>
    /\ UNCHANGED <<refs, now, sent, content>>
    /\ NoUserEvent
    /\ PipelineFrame

\* A variant for a message of the bot that leaves the registry alone.
delete_hook_bot_ignored(m) ==
    /\ m \in events
    /\ events' = events \ {m}
    /\ UNCHANGED <<refs, tasks, now, sent, posted, content>>
    /\ NoUserEvent
    /\ PipelineFrame

\* on_message_delete for a message of the bot: delete_hook(message) runs
\* to its end without awaiting.
delete_hook_bot(m) ==
    /\ m \in events
    /\ events' = events \ {m}
    /\ refs' = unlink_from_reply(refs, m).refs
    /\ tasks' = DetachedIf(tasks, refs, m)
    /\ UNCHANGED <<now, sent, posted, content>>
    /\ NoUserEvent
    /\ PipelineFrame

\* Somebody other than the bot deletes one of the bot's replies.
ReplyRemoved(m) ==
    /\ Posted(m)
    /\ posted' = Deleted(posted, m)
    /\ events' = events \cup {m}
    /\ UNCHANGED <<refs, now, sent, tasks, content>>
    /\ UserEvent
    /\ PipelineFrame

\* More than a day passes.
PipelineTick ==
    /\ now + 2 <= MaxNow
    /\ now' = now + 2
    /\ UNCHANGED <<refs, sent, tasks, content, posted, events, dispatched>>
    /\ PipelineFrame

----------------------------------------------------------------------------
(* The code block feature (app/components/zig_codeblocks.py): the same     *)
(* pipeline written out by hand over its own registry, codeblock_linker.   *)
(* Its registry class and remove_view_after_delay come from                *)
(* app/common/hooks, which is modelled from the specification.             *)

\* codeblock_processor counts code blocks and attachments: never negative.
ZigContents == {c \in Contents : c.count >= 0}
ZigFirstTexts == {c \in FirstTexts : c.count >= 0}

\* codeblock_linker.get(original): the reply linked to it, or None.
codeblock_linker_get(r, original) ==
    IF Stored(r, original) = <<>> THEN None ELSE Stored(r, original)[1]

\* codeblock_linker.unlink(original): a no-op when it is not tracked.
codeblock_linker_unlink(r, original) ==
    IF original \in Keys(r) THEN Remove(r, Index(r, original)) ELSE r

\* codeblock_linker.is_expired(original): its reply was last updated more
\* than the consistency window ago.
codeblock_linker_is_expired(r, original, p, at) ==
    /\ codeblock_linker_get(r, original) # None
    /\ LET st == p[codeblock_linker_get(r, original)]
           last_updated == IF st.edited_at # None THEN st.edited_at
                           ELSE st.created_at
       IN  (at - last_updated) * 24 > ExpiryHours

\* codeblock_linker.is_frozen(original)
codeblock_linker_is_frozen(original) == original \in frozen

ZigFrame == UNCHANGED <<cacheVars, lastCall, parserVars, emojiVars>>

\* on_message: check_for_zig_code(message) up to its first await.
check_for_zig_code(o, c) ==
    /\ content[o] = NoContent
    /\ \A p \in Originals : p < o => content[p] # NoContent
    /\ content' = [content EXCEPT ![o] = c]
    /\ tasks' = [tasks EXCEPT ![Slot] =
            [Started("create", o) EXCEPT !.pc = "output", !.after = c]]
    /\ UNCHANGED <<refs, now, sent, posted, events, frozen>>
    /\ UserEvent
    /\ ZigFrame

\* codeblock_processor answered: `if not output.item_count: return`, else
\* message.reply is awaited.
check_for_zig_code_output(t) ==
    /\ tasks[t].pc = "output"
    /\ tasks' = [tasks EXCEPT ![t] =
            IF message_processor(@.after).count = 0
            THEN Done(@, "no_items")
            ELSE [@ EXCEPT !.pc = "zig_reply"]]
    /\ UNCHANGED <<refs, now, sent, posted, events, content, frozen>>
    /\ NoUserEvent
    /\ ZigFrame

\* message.reply answered: codeblock_linker.link(message, reply), then
\* remove_view_after_delay sleeps; a failure escapes the handler.
check_for_zig_code_sent(t, outcome) ==
    /\ tasks[t].pc = "zig_reply"
    /\ outcome \in PlatformOutcomes(Live(tasks[t].msg))
    /\ IF outcome = "ok"
       THEN /\ sent' = sent + 1
            /\ posted' = [m \in DOMAIN posted \cup {ReplyId(sent + 1)} |->
                    IF m = ReplyId(sent + 1)
                    THEN [shows |-> message_processor(tasks[t].after).objects,
                          view |-> TRUE, created_at |-> now, edited_at |-> None,
                          deleted |-> FALSE]
                    ELSE posted[m]]
            /\ refs' = link(refs, tasks[t].msg, <<ReplyId(sent + 1)>>)
            /\ tasks' = [Extended(tasks, tasks[t].msg, <<ReplyId(sent + 1)>>)
                            EXCEPT ![t].pc = "sleep",
                                   ![t].reply = ReplyId(sent + 1)]
       ELSE /\ tasks' = [tasks EXCEPT ![t] = Done(@, "raised")]
            /\ UNCHANGED <<sent, posted, refs>>
    /\ UNCHANGED <<now, events, content, frozen>>
    /\ NoUserEvent
    /\ ZigFrame

\* on_message_edit(before, after) up to its first await.
on_message_edit(o, c) ==
    /\ Live(o)
    /\ content' = [content EXCEPT ![o] = c]
    /\ IF SameText(content[o], c)
       THEN /\ tasks' = [tasks EXCEPT ![Slot] =
                    Done(Started("edit", o), "same_content")]
            /\ UNCHANGED refs
       ELSE IF codeblock_linker_is_expired(refs, o, posted, now)
       THEN /\ refs' = codeblock_linker_unlink(refs, o)
            /\ tasks' = [tasks EXCEPT ![Slot] =
                    Done(Started("edit", o), "expired")]
       ELSE /\ tasks' = [tasks EXCEPT ![Slot] =
                    [Started("edit", o) EXCEPT !.pc = "old_output",
                                               !.before = content[o]]]
            /\ UNCHANGED refs
    /\ UNCHANGED <<now, sent, posted, events, frozen>>
    /\ UserEvent
    /\ ZigFrame

\* old_output = await codeblock_processor(before) answered;
\* codeblock_processor(after) starts on the text the message has by now.
on_message_edit_old_output(t) ==
    /\ tasks[t].pc = "old_output"
    /\ tasks' = [tasks EXCEPT ![t].pc = "new_output",
                              ![t].after = content[tasks[t].msg]]
    /\ UNCHANGED <<refs, now, sent, posted, events, content, frozen>>
    /\ NoUserEvent
    /\ ZigFrame

\* A variant that looks at the frozen flag of untracked originals only.
on_message_edit_new_output_unfrozen(t) ==
    /\ tasks[t].pc = "new_output"
    /\ LET before == tasks[t].msg
           old_output == message_processor(tasks[t].before)
           new_output == message_processor(tasks[t].after)
           reply == codeblock_linker_get(refs, before)
       IN  IF old_output = new_output
           THEN /\ tasks' = [tasks EXCEPT ![t] = Done(@, "same_objects")]
                /\ UNCHANGED refs
           ELSE IF reply = None
           THEN /\ tasks' = [tasks EXCEPT ![t] =
                        IF codeblock_linker_is_frozen(before)
                        THEN Done(@, "frozen")
                        ELSE IF old_output.count > 0
                        THEN Done(@, "untracked")
                        ELSE \* await self.check_for_zig_code(after)
                             [@ EXCEPT !.pc = "output",
                                       !.after = content[before]]]
                /\ UNCHANGED refs
           ELSE IF new_output.count <= 0
           THEN /\ refs' = codeblock_linker_unlink(refs, before)
                /\ tasks' = [tasks EXCEPT ![t].pc = "delete", ![t].reply = reply]
           ELSE /\ tasks' = [tasks EXCEPT ![t].pc = "edit", ![t].reply = reply]
                /\ UNCHANGED refs
    /\ UNCHANGED <<now, sent, posted, events, content, frozen>>
    /\ NoUserEvent
    /\ ZigFrame

\* new_output = await codeblock_processor(after) answered: the handler runs
\* on to its next await or to its return.
on_message_edit_new_output(t) ==
    /\ tasks[t].pc = "new_output"
    /\ LET before == tasks[t].msg
           old_output == message_processor(tasks[t].before)
           new_output == message_processor(tasks[t].after)
           reply == codeblock_linker_get(refs, before)
       IN  IF old_output = new_output
           THEN /\ tasks' = [tasks EXCEPT ![t] = Done(@, "same_objects")]
                /\ UNCHANGED refs
           ELSE IF reply = None
           THEN /\ tasks' = [tasks EXCEPT ![t] =
                        IF codeblock_linker_is_frozen(before)
                        THEN Done(@, "frozen")
                        ELSE IF old_output.count > 0
                        THEN Done(@, "untracked")
                        ELSE \* await self.check_for_zig_code(after)
                             [@ EXCEPT !.pc = "output",
                                       !.after = content[before]]]
                /\ UNCHANGED refs
           ELSE IF codeblock_linker_is_frozen(before)
           THEN /\ tasks' = [tasks EXCEPT ![t] = Done(@, "frozen")]
                /\ UNCHANGED refs
           ELSE IF new_output.count <= 0
           THEN /\ refs' = codeblock_linker_unlink(refs, before)
                /\ tasks' = [tasks EXCEPT ![t].pc = "delete", ![t].reply = reply]
           ELSE /\ tasks' = [tasks EXCEPT ![t].pc = "edit", ![t].reply = reply]
                /\ UNCHANGED refs
    /\ UNCHANGED <<now, sent, posted, events, content, frozen>>
    /\ NoUserEvent
    /\ ZigFrame

\* on_message_delete: codeblock_linker.delete(message) for a user's
\* message, up to the first reply deletion it awaits.
codeblock_linker_delete(o) ==
    /\ Live(o)
    /\ content' = [content EXCEPT ![o].live = FALSE]
    /\ tasks' = [tasks EXCEPT ![Slot] =
            IF Stored(refs, o) = <<>>
            THEN Done(Started("delete", o), "no_replies")
            ELSE [Started("delete", o) EXCEPT !.pc = "zig_delete_reply",
                    !.replies = Stored(refs, o), !.i = 1]]
    /\ UNCHANGED <<refs, now, sent, posted, events, frozen>>
    /\ UserEvent
    /\ ZigFrame

\* A reply deletion of codeblock_linker.delete answered: a failure is
\* swallowed, and the next reply is deleted.
codeblock_linker_delete_reply_deleted(t, outcome) ==
    /\ tasks[t].pc = "zig_delete_reply"
    /\ LET reply == tasks[t].replies[tasks[t].i]
       IN  /\ outcome \in PlatformOutcomes(Posted(reply))
           /\ IF outcome = "ok"
              THEN /\ posted' = Deleted(posted, reply)
                   /\ events' = events \cup {reply}
              ELSE UNCHANGED <<posted, events>>
    /\ tasks' = [tasks EXCEPT ![t] =
            IF @.i = Len(@.replies) THEN Done(@, "deleted")
            ELSE [@ EXCEPT !.i = @ + 1]]
    /\ UNCHANGED <<refs, now, sent, content, frozen>>
    /\ NoUserEvent
    /\ ZigFrame

\* on_message_delete: codeblock_linker.delete(message) for a message of
\* the bot unlinks the original it replied to.
codeblock_linker_delete_bot(m) ==
    /\ m \in events
    /\ events' = events \ {m}
    /\ refs' = IF get_original_message(refs, m) = None THEN refs
               ELSE codeblock_linker_unlink(refs, get_original_message(refs, m))
    /\ UNCHANGED <<tasks, now, sent, posted, content, frozen>>
    /\ NoUserEvent
    /\ ZigFrame

\* A manual action on the reply freezes the original.
freeze(o) ==
    /\ Live(o)
    /\ o \notin frozen
    /\ frozen' = frozen \cup {o}
    /\ UNCHANGED <<refs, tasks, now, sent, posted, content, events>>
    /\ UserEvent
    /\ ZigFrame

----------------------------------------------------------------------------
(* The signature parser (app/components/entity_mentions/resolution.py):    *)
(* resolve_repo_signatures, an asynchronous generator over the matches of  *)
(* ENTITY_REGEX in the message text.  A text is a sequence of characters,  *)
(* and the pattern is matched the way the backtracking matcher does: the   *)
(* optional groups are tried present before absent, the repo name longest  *)
(* first.                                                                  *)

LowerCase ==
 <<
    "a", "b", "c", "d", "e", "f", "g", "h", "i", "j", "k", "l", "m", "n",
    "o", "p", "q", "r", "s", "t", "u", "v", "w", "x", "y", "z"
 >>
UpperCase ==
 <<
    "A", "B", "C", "D", "E", "F", "G", "H", "I", "J", "K", "L", "M", "N",
    "O", "P", "Q", "R", "S", "T", "U", "V", "W", "X", "Y", "Z"
 >>
DecimalDigits ==
 <<
    "0", "1", "2", "3", "4", "5", "6", "7", "8", "9"
 >>

\* re.IGNORECASE: the pattern's letters match either case.
Letters == Range(LowerCase) \cup Range(UpperCase)
DigitChars == Range(DecimalDigits)
\* \w, [a-z0-9\-] and [a-z0-9\-\._]
WordChars == Letters \cup DigitChars \cup {"_"}
OwnerChars == Letters \cup DigitChars \cup {"-"}
RepoChars == OwnerChars \cup {".", "_"}

lower(c) ==
    IF c \in Range(UpperCase)
    THEN LowerCase[CHOOSE k \in 1..Len(UpperCase) : UpperCase[k] = c]
    ELSE c
casefold(s) == [k \in 1..Len(s) |-> lower(s[k])]

\* \b before the character at position i (Len(s) + 1: the end of the text)
IsWord(s, k) == k \in 1..Len(s) /\ s[k] \in WordChars
Boundary(s, i) == IsWord(s, i - 1) # IsWord(s, i)

\* A literal of the pattern found at position i, whatever the case.
Literal(s, i, lit) ==
    /\ i + Len(lit) - 1 <= Len(s)
    /\ lower(s[i]) = lit[1]
    /\ casefold(SubSeq(s, i, i + Len(lit) - 1)) = lit

\* The position after the longest run of characters of a class from i on.
RunEnd(s, i, class) ==
    CHOOSE e \in i..(Len(s) + 1) :
        /\ \A k \in i..(e - 1) : s[k] \in class
        /\ e = Len(s) + 1 \/ s[e] \notin class

\* Each part of the pattern yields the position after it, or 0 when it does
\* not match.  (?P<site>\bhttps?://github\.com/)
SitePrefixes == {<<
        "h", "t", "t", "p", "s", ":", "/", "/", "g", "i", "t", "h", "u",
        "b", ".", "c", "o", "m", "/">>,
                 <<
        "h", "t", "t", "p", ":", "/", "/", "g", "i", "t", "h", "u", "b",
        ".", "c", "o", "m", "/">>}
SiteEnd(s, i) ==
    LET found == {lit \in SitePrefixes : Literal(s, i, lit)}
    IN  IF Boundary(s, i) /\ found # {}
        THEN i + Len(CHOOSE lit \in found : TRUE)
        ELSE 0

\* (?P<sep>/(?:issues|pull|discussions)/|#)
Hash == <<"#">>
PathSeparators == {<<"/", "i", "s", "s", "u", "e", "s", "/">>,
                   <<"/", "p", "u", "l", "l", "/">>,
                   <<"/", "d", "i", "s", "c", "u", "s", "s", "i", "o", "n", "s", "/">>}
SepEnd(s, j) ==
    LET found == {lit \in PathSeparators \cup {Hash} : Literal(s, j, lit)}
    IN  IF found # {} THEN j + Len(CHOOSE lit \in found : TRUE) ELSE 0

\* (?P<number>\d{1,6})(?!\.\d)\b: between the digits of a run neither the
\* look-ahead nor \b lets the number end, so it is the whole run.
NumberEnd(s, j) ==
    LET e == RunEnd(s, j, DigitChars)
    IN  IF /\ e > j
           /\ e - j <= 6
           /\ ~(e + 1 <= Len(s) /\ s[e] = "." /\ s[e + 1] \in DigitChars)
           /\ Boundary(s, e)
        THEN e ELSE 0

\* The separator and the number from j on.
TailEnd(s, j) ==
    LET d == SepEnd(s, j)
    IN  IF d = 0 THEN 0 ELSE NumberEnd(s, d)

\* (?P<repo>\b[a-z0-9\-\._]+)?: the longest name the rest of the pattern
\* matches after, else no name; j itself stands for the absent group.
RepoEnds(s, j) ==
    IF Boundary(s, j)
    THEN {e \in (j + 1)..RunEnd(s, j, RepoChars) : TailEnd(s, e) # 0}
    ELSE {}
RepoEnd(s, j) ==
    LET ends == RepoEnds(s, j)
    IN  IF ends # {}
        THEN CHOOSE e \in ends : \A f \in ends : f <= e
        ELSE IF TailEnd(s, j) # 0 THEN j ELSE 0

\* (?P<owner>\b[a-z0-9\-]+/)?
OwnerGroupEnd(s, j) ==
    LET e == RunEnd(s, j, OwnerChars)
    IN  IF Boundary(s, j) /\ e > j /\ e <= Len(s) /\ s[e] = "/"
        THEN e + 1 ELSE 0
OwnerEnd(s, j) ==
    LET b == OwnerGroupEnd(s, j)
    IN  IF b # 0 /\ RepoEnd(s, b) # 0 THEN b
        ELSE IF RepoEnd(s, j) # 0 THEN j ELSE 0

SitePartEnd(s, i) ==
    LET a == SiteEnd(s, i)
    IN  IF a # 0 /\ OwnerEnd(s, a) # 0 THEN a
        ELSE IF OwnerEnd(s, i) # 0 THEN i ELSE 0

\* ENTITY_REGEX matched at position i; an absent group is the empty text.
MatchAt(s, i) ==
    LET a == SitePartEnd(s, i)
        b == OwnerEnd(s, a)
        c == RepoEnd(s, b)
        d == SepEnd(s, c)
        e == NumberEnd(s, d)
    IN  [site |-> SubSeq(s, i, a - 1), owner |-> SubSeq(s, a, b - 1),
         repo |-> SubSeq(s, b, c - 1), sep |-> SubSeq(s, c, d - 1),
         number |-> SubSeq(s, d, e - 1), end |-> e]
NoMatch ==
    [site |-> <<>>, owner |-> <<>>, repo |-> <<>>, sep |-> <<>>,
     number |-> <<>>, end |-> 0]

\* ENTITY_REGEX.finditer: the leftmost match at or after position p.
RECURSIVE finditer(_, _)
finditer(s, p) ==
    IF p > Len(s) THEN NoMatch
    ELSE IF SitePartEnd(s, p) # 0 THEN MatchAt(s, p)
    ELSE finditer(s, p + 1)

\* int(match["number"])
RECURSIVE int(_)
int(ds) ==
    IF ds = <<>> THEN 0
    ELSE 10 * int(SubSeq(ds, 1, Len(ds) - 1))
            + (CHOOSE k \in 1..Len(DecimalDigits) :
                    DecimalDigits[k] = ds[Len(ds)]) - 1

rstrip_nothing(s) == s

\* owner.rstrip("/")
RECURSIVE rstrip(_)
rstrip(s) ==
    IF s # <<>> /\ s[Len(s)] = "/" THEN rstrip(SubSeq(s, 1, Len(s) - 1)) ELSE s

\* config.GITHUB_ORG and config.GITHUB_REPOS
GITHUB_ORG == <<"g", "h", "o", "s", "t", "t", "y", "-", "o", "r", "g">>
GITHUB_REPOS ==
    [main |-> <<"g", "h", "o", "s", "t", "t", "y">>,
     web |-> <<"w", "e", "b", "s", "i", "t", "e">>,
     bot |-> <<"d", "i", "s", "c", "o", "r", "d", "-", "b", "o", "t">>]
Main == <<"m", "a", "i", "n">>
Web == <<"w", "e", "b">>
Bot == <<"b", "o", "t">>
Bobr == <<"b", "o", "b", "r">>

\* REPO_ALIASES of config.py: the prefixes of the organization's repositories.
Ghostty == <<"g", "h", "o", "s", "t", "t", "y">>
Website == <<"w", "e", "b", "s", "i", "t", "e">>
DiscordBot == <<"d", "i", "s", "c", "o", "r", "d", "-", "b", "o", "t">>
REPO_ALIASES ==
    (Ghostty :> Ghostty) @@ (Main :> Ghostty) @@ (Web :> Website)
    @@ (Website :> Website) @@ (DiscordBot :> DiscordBot)
    @@ (Bot :> DiscordBot) @@ (Bobr :> DiscordBot)

WrongSeparatorNever(m) == FALSE

\* `if bool(site) == (sep == "#"): continue`
WrongSeparator(m) == (m.site # <<>>) = (m.sep = Hash)

\* A variant that lets single digits and owners without a repo through.
CaseLenient(m) ==
    IF m.owner = <<>> /\ m.repo = <<>> THEN "default" ELSE "full"

\* The case of `match owner, repo:` a match falls in.
Case(m) ==
    IF m.owner = <<>> /\ m.repo = <<>>
    THEN IF int(m.number) < 10 /\ m.site = <<>> THEN "noise" ELSE "default"
    ELSE IF m.owner = <<>>
    THEN IF m.repo \in {Main, Web, Bot} THEN "prefix"
         ELSE IF m.repo = Bobr THEN "bobr" ELSE "name"
    ELSE IF m.repo = <<>> THEN "malformed" ELSE "full"

\* What the case yields without awaiting anything.
Signature(m) ==
    CASE Case(m) = "default" -> <<GITHUB_ORG, GITHUB_REPOS.main, int(m.number)>>
      [] Case(m) = "prefix" ->
            <<GITHUB_ORG,
              IF m.repo = Main THEN GITHUB_REPOS.main
              ELSE IF m.repo = Web THEN GITHUB_REPOS.web ELSE GITHUB_REPOS.bot,
              int(m.number)>>
      [] Case(m) = "bobr" -> <<GITHUB_ORG, GITHUB_REPOS.bot, int(m.number)>>
      [] Case(m) = "full" -> <<rstrip(m.owner), m.repo, int(m.number)>>

\* The login find_repo_owner finds for a repository name.
Login(name) == name \o <<"-", "o", "r", "g">>

\* `if valid_signatures == 10: break`
MaxSignatures == 10

\* The message texts scanned: up to MaxWords words, or one word MaxRepeat
\* times over and another after it, with a blank between the words.
Words == {
    <<"#", "3">>,
    <<"#", "4", "2">>,
    <<"f", "o", "o", "/", "#", "1", "2", "3">>,
    <<"o", "r", "g", "/", "r", "e", "p", "o", "#", "7">>,
    <<
        "h", "t", "t", "p", "s", ":", "/", "/", "g", "i", "t", "h", "u",
        "b", ".", "c", "o", "m", "/", "a", "/", "b", "/", "i", "s", "s",
        "u", "e", "s", "/", "9">>,
    <<"u", "v", "#", "1", "1">>,
    <<"s", "e", "e">>,
    <<"a", "n", "d">>,
    <<
        "h", "t", "t", "p", "s", ":", "/", "/", "g", "i", "t", "h", "u",
        "b", ".", "c", "o", "m", "/", "a", "/", "b", "#", "9">>,
    <<"a", "/", "b", "/", "p", "u", "l", "l", "/", "9">>,
    <<"#", "1", ".", "5">>,
    <<"m", "a", "i", "n", "#", "1", "2">>,
    <<"f", "o", "o", "/", "#", "5">>,
    <<"w", "e", "b", "s", "i", "t", "e", "#", "1", "2">>}
Sample ==
    <<
        "s", "e", "e", " ", "#", "4", "2", " ", "a", "n", "d", " ", "o",
        "r", "g", "/", "r", "e", "p", "o", "#", "7", " ", "a", "n", "d",
        " ", "h", "t", "t", "p", "s", ":", "/", "/", "g", "i", "t", "h",
        "u", "b", ".", "c", "o", "m", "/", "a", "/", "b", "/", "i", "s",
        "s", "u", "e", "s", "/", "9">>

RECURSIVE Join(_)
Join(ws) ==
    IF ws = <<>> THEN <<>>
    ELSE IF Len(ws) = 1 THEN ws[1]
    ELSE ws[1] \o <<" ">> \o Join(Tail(ws))

Phrases == UNION {[1..n -> Words] : n \in 0..MaxWords}
Repeated ==
    {[k \in 1..(n + 1) |-> IF k <= n THEN w ELSE v] :
        w \in Words, v \in Words, n \in (MaxRepeat - 1)..MaxRepeat}
Texts == {Join(ws) : ws \in Phrases \cup Repeated} \cup {Sample}

ParserFrame == UNCHANGED <<cacheVars, linkerVars, hookVars, search, emojiVars>>

\* What owner_cache.get(repo) can end with: the owner, or the failure of the
\* search (RequestFailed) or of find_repo_owner finding no repository of that
\* name (a StopIteration, raised from the coroutine as RuntimeError).  A
\* name resolved earlier in the scan is served from the cache.
ResolveOutcomes(name) ==
    IF name \in resolved THEN {"ok"}
    ELSE {"ok", "RequestFailed", "RuntimeError"}

\* `valid_signatures += 1; if valid_signatures == 10: break`
Counted(n) == IF n + 1 = MaxSignatures THEN "exhausted" ELSE "scan"

\* resolve_repo_signatures(message): the generator is created.
resolve_repo_signatures(m) ==
    /\ gen = "idle"
    /\ text' = m
    /\ gen' = "scan"
    /\ UNCHANGED <<scan, yielded, valid_signatures, match, edits, resolved>>
    /\ ParserFrame

\* One turn of `for match in ENTITY_REGEX.finditer(message.content)`, up to
\* the next await, the next turn or the end of the generator.
for_match ==
    /\ gen = "scan"
    /\ \E m \in {finditer(text, scan)} :
           IF m = NoMatch
           THEN /\ gen' = "exhausted"
                /\ UNCHANGED <<scan, yielded, valid_signatures, match>>
           ELSE /\ scan' = m.end
                /\ match' = m
                /\ IF WrongSeparator(m)
                   THEN /\ gen' = "scan"
                        /\ UNCHANGED <<yielded, valid_signatures>>
                   ELSE IF m.site # <<>>
                   THEN /\ gen' = "edit"
                        /\ UNCHANGED <<yielded, valid_signatures>>
                   ELSE IF Case(m) \in {"noise", "malformed"}
                   THEN /\ gen' = "scan"
                        /\ UNCHANGED <<yielded, valid_signatures>>
                   ELSE IF Case(m) = "name"
                   THEN /\ gen' = "get"
                        /\ UNCHANGED <<yielded, valid_signatures>>
                   ELSE /\ yielded' = Append(yielded, Signature(m))
                        /\ valid_signatures' = valid_signatures + 1
                        /\ gen' = Counted(valid_signatures)
    /\ UNCHANGED <<text, edits, resolved>>
    /\ ParserFrame

\* `await message.edit(suppress=True)` answered; a failure escapes the
\* generator.  Then the cases of a match that has a site prefix.
message_edit(outcome) ==
    /\ gen = "edit"
    /\ edits' = edits + 1
    /\ IF outcome # "ok"
       THEN /\ gen' = "raised"
            /\ UNCHANGED <<yielded, valid_signatures>>
       ELSE IF Case(match) = "malformed"
       THEN /\ gen' = "scan"
            /\ UNCHANGED <<yielded, valid_signatures>>
       ELSE IF Case(match) = "name"
       THEN /\ gen' = "get"
            /\ UNCHANGED <<yielded, valid_signatures>>
       ELSE /\ yielded' = Append(yielded, Signature(match))
            /\ valid_signatures' = valid_signatures + 1
            /\ gen' = Counted(valid_signatures)
    /\ UNCHANGED <<text, scan, match, resolved>>
    /\ ParserFrame

\* `with suppress(RequestFailed, RuntimeError): yield await
\* owner_cache.get(repo), repo, number` answered.
owner_cache_get(outcome) ==
    /\ gen = "get"
    /\ outcome \in ResolveOutcomes(match.repo)
    /\ IF outcome = "ok"
       THEN /\ yielded' = Append(yielded,
                    <<Login(match.repo), match.repo, int(match.number)>>)
            /\ resolved' = resolved \cup {match.repo}
       ELSE UNCHANGED <<yielded, resolved>>
    /\ valid_signatures' = valid_signatures + 1
    /\ gen' = Counted(valid_signatures)
    /\ UNCHANGED <<text, scan, match, edits>>
    /\ ParserFrame

NextParser ==
    \/ \E m \in Texts : resolve_repo_signatures(m)
    \/ for_match
    \/ \E outcome \in {"ok", "NotFound", "HTTPException"} : message_edit(outcome)
    \/ \E outcome \in {"ok", "RequestFailed", "RuntimeError"} :
            owner_cache_get(outcome)

----------------------------------------------------------------------------
(* GhosttyBot.load_emojis: the application emojis brought in line with     *)
(* the emoji files of the repository.                                      *)

\* Two of the names of the EmojiName literal, in the order in which the
\* dictionary of the bot iterates over them.
EMOJI_NAMES == <<"issue_open", "pull_open">>
EmojiNames == {EMOJI_NAMES[k] : k \in DOMAIN EMOJI_NAMES}
OUTDATED_EMOJI_NAMES == {}

\* A name the bot neither uses nor used.
ForeignNames == {"party"}

\* The contents of an image; emoji_files[name] is what the repository ships.
Images == {"shipped", "former"}
emoji_files == [name \in EmojiNames |-> "shipped"]

\* The placeholder of an emoji that is not loaded; a loaded one is held by
\* the id of the application emoji.
Missing == 0

\* The state of the bot after __init__.
NoLoader ==
    [pc |-> "idle", fetched |-> <<>>, queue |-> <<>>, names |-> <<>>,
     log |-> {}, at |-> "", loads |-> 0]

\* The application emojis in the order of their ids.
RECURSIVE ById(_)
ById(es) ==
    IF es = {} THEN <<>>
    ELSE LET first == CHOOSE e \in es : \A f \in es : e.id <= f.id
         IN  <<first>> \o ById(es \ {first})

\* The loops of load_emojis from the loader's position up to the next await
\* or to the end: the emojis left of the fetched list (an outdated one is
\* about to be deleted, a foreign one is skipped, one of the bot is about to
\* be read), then the names whose emoji is still missing.
RECURSIVE for_emoji(_, _)
for_emoji(l, ge) ==
    IF l.queue # <<>>
    THEN LET emoji == Head(l.queue)
         IN  IF emoji.name \in OUTDATED_EMOJI_NAMES
             THEN [l EXCEPT !.pc = "delete_outdated",
                            !.log = @ \cup {<<"removing outdated", emoji.name>>}]
             ELSE IF emoji.name \notin EmojiNames
             THEN for_emoji([l EXCEPT !.queue = Tail(@),
                                      !.log = @ \cup {<<"skipping", emoji.name>>}],
                            ge)
             ELSE [l EXCEPT !.pc = "read"]
    ELSE IF l.names # <<>>
    THEN LET emoji == Head(l.names)
         IN  IF ge[emoji] # Missing
             THEN for_emoji([l EXCEPT !.names = Tail(@)], ge)
             ELSE [l EXCEPT !.pc = "upload",
                            !.log = @ \cup {<<"uploading missing", emoji>>}]
    ELSE [l EXCEPT !.pc = "finished"]

\* A variant of the first loop's except branch in which the failure leaves
\* load_emojis.
failed_to_update_uncaught(l, ge) ==
    [l EXCEPT !.pc = "raised", !.at = "emoji"]

\* except Exception of the first loop: the failure is logged and the loop
\* goes on with the next emoji.
failed_to_update(l, ge) ==
    for_emoji([l EXCEPT !.queue = Tail(@),
                        !.log = @ \cup {<<"failed to update", Head(l.queue).name>>}],
              ge)

\* except Exception of the second loop.
failed_to_upload_missing(l, ge) ==
    for_emoji([l EXCEPT !.names = Tail(@),
                        !.log = @ \cup {<<"failed to upload missing", Head(l.names)>>}],
              ge)

\* The else branch of the first loop, and the success of the second: the
\* emoji is stored under its name.
loaded(l, name) == [l EXCEPT !.log = @ \cup {<<"loaded", name>>}]

\* The loader moves to l; the event is set when load_emojis reaches its end.
Resume(l) ==
    /\ loader' = l
    /\ emojis_loaded' = IF l.pc = "finished" THEN TRUE ELSE emojis_loaded

EmojiFrame == UNCHANGED <<cacheVars, linkerVars, hookVars, parserVars>>

\* load_emojis up to await self.fetch_application_emojis(): the event is
\* cleared and the emoji files are read.
load_emojis(files) ==
    /\ loader.pc \in {"idle", "finished", "raised"}
    /\ loader.loads < MaxLoads
    /\ emojis_loaded' = FALSE
    /\ loader' = [NoLoader EXCEPT
                    !.loads = loader.loads + 1,
                    !.pc = IF files = "ok" THEN "fetch" ELSE "raised",
                    !.at = IF files = "ok" THEN "" ELSE "read_bytes"]
    /\ UNCHANGED <<ghostty_emojis, application_emojis, emoji_ids>>
    /\ EmojiFrame

\* fetch_application_emojis answers.
fetch_application_emojis(outcome) ==
    /\ loader.pc = "fetch"
    /\ IF outcome = "ok"
       THEN Resume(for_emoji([loader EXCEPT
                                !.fetched = ById(application_emojis),
                                !.queue = ById(application_emojis),
                                !.names = EMOJI_NAMES],
                             ghostty_emojis))
       ELSE Resume([loader EXCEPT !.pc = "raised",
                                  !.at = "fetch_application_emojis"])
    /\ UNCHANGED <<ghostty_emojis, application_emojis, emoji_ids>>
    /\ EmojiFrame

\* emoji.read() answers: an emoji whose image is the shipped one is stored,
\* another one is about to be deleted and uploaded again.
emoji_read(outcome) ==
    /\ loader.pc = "read"
    /\ LET emoji == Head(loader.queue)
       IN  IF outcome # "ok"
           THEN /\ Resume(failed_to_update(loader, ghostty_emojis))
                /\ UNCHANGED ghostty_emojis
           ELSE IF emoji.image # emoji_files[emoji.name]
           THEN /\ Resume([loader EXCEPT
                             !.pc = "delete",
                             !.log = @ \cup {<<"updating out-of-date", emoji.name>>}])
                /\ UNCHANGED ghostty_emojis
           ELSE \E ge \in {[ghostty_emojis EXCEPT ![emoji.name] = emoji.id]} :
                    /\ ghostty_emojis' = ge
                    /\ Resume(for_emoji([loaded(loader, emoji.name)
                                            EXCEPT !.queue = Tail(@)], ge))
    /\ UNCHANGED <<application_emojis, emoji_ids>>
    /\ EmojiFrame

\* emoji.delete() answers: for an outdated emoji outside the try statement,
\* for an out-of-date one inside it.
emoji_delete(outcome) ==
    /\ loader.pc \in {"delete_outdated", "delete"}
    /\ LET emoji == Head(loader.queue)
       IN  /\ application_emojis' =
                IF outcome = "ok"
                THEN {e \in application_emojis : e.id # emoji.id}
                ELSE application_emojis
           /\ IF loader.pc = "delete_outdated"
              THEN IF outcome = "ok"
                   THEN Resume(for_emoji([loader EXCEPT !.queue = Tail(@)],
                                         ghostty_emojis))
                   ELSE Resume([loader EXCEPT !.pc = "raised",
                                              !.at = "delete_outdated"])
              ELSE IF outcome = "ok"
                   THEN Resume([loader EXCEPT !.pc = "create"])
                   ELSE Resume(failed_to_update(loader, ghostty_emojis))
    /\ UNCHANGED <<ghostty_emojis, emoji_ids>>
    /\ EmojiFrame

\* create_application_emoji answers: the upload again of an out-of-date
\* emoji in the first loop, the upload of a missing one in the second.
create_application_emoji(outcome) ==
    /\ loader.pc \in {"create", "upload"}
    /\ outcome = "ok" => emoji_ids < MaxEmojiId
    /\ LET first == loader.pc = "create"
           name == IF first THEN Head(loader.queue).name ELSE Head(loader.names)
           rest == IF first THEN [loader EXCEPT !.queue = Tail(@)]
                            ELSE [loader EXCEPT !.names = Tail(@)]
       IN  IF outcome = "ok"
           THEN \E ge \in {[ghostty_emojis EXCEPT ![name] = emoji_ids + 1]} :
                    /\ emoji_ids' = emoji_ids + 1
                    /\ application_emojis' =
                         application_emojis \cup
                           {[id |-> emoji_ids + 1, name |-> name,
                             image |-> emoji_files[name]]}
                    /\ ghostty_emojis' = ge
                    /\ Resume(for_emoji(loaded(rest, name), ge))
           ELSE /\ Resume(IF first
                          THEN failed_to_update(loader, ghostty_emojis)
                          ELSE failed_to_upload_missing(loader, ghostty_emojis))
                /\ UNCHANGED <<ghostty_emojis, application_emojis, emoji_ids>>
    /\ EmojiFrame

----------------------------------------------------------------------------
(* The state after construction, and the specifications.                  *)

Init ==
    /\ cache = <<>>
    /\ clock = 0
    /\ inflight = {}
    /\ started = 0
    /\ callers = [c \in Callers |-> Idle]
    /\ lastFetch = [id |-> 0, key |-> "", outcome |-> ""]
    /\ refs = <<>>
    /\ now = 0
    /\ sent = 0
    /\ lastCall = [op |-> "", raised |-> "", ret |-> FALSE]
    /\ content = [o \in Originals |-> NoContent]
    /\ posted = <<>>
    /\ tasks = [t \in Tasks |-> IdleTask]
    /\ events = {}
    /\ dispatched = 0
    /\ frozen = {}
    /\ text = <<>>
    /\ scan = 1
    /\ match = NoMatch
    /\ yielded = <<>>
    /\ valid_signatures = 0
    /\ gen = "idle"
    /\ edits = 0
    /\ resolved = {}
    /\ search = NoSearch
    /\ emojis_loaded = FALSE
    /\ ghostty_emojis = [name \in EmojiNames |-> Missing]
    /\ application_emojis = {}
    /\ emoji_ids = 0
    /\ loader = NoLoader

NextLinker ==
    \/ \E original \in Originals : CallGet(original)
    \/ \E original \in Originals, n \in 1..MaxLinkArgs : CallLink(original, n)
    \/ \E original \in Originals : CallUnlink(original)
    \/ \E m \in Originals \cup Existing : CallGetOriginalMessage(m)
    \/ \E m \in Originals \cup Existing : CallUnlinkFromReply(m)
    \/ \E m \in Existing, st \in StampsAt(now) : CallUnlinkIfExpired(m, st)
    \/ LinkerTick

NextHooks ==
    \/ dispatched < MaxEvents /\ \E o \in Originals, c \in FirstTexts :
            reply_with_comments(o, c)
    \/ \E t \in Tasks : reply_with_comments_embeds(t)
    \/ \E t \in Tasks, outcome \in {"ok", "NotFound", "HTTPException"} :
            \/ reply_with_comments_sent(t, outcome)
            \/ reply_with_comments_suppressed(t, outcome)
            \/ remove_view_after_timeout(t, outcome)
            \/ edit_hook_deleted(t, outcome)
            \/ edit_hook_edited(t, outcome)
            \/ delete_hook_reply_deleted(t, outcome)
    \/ dispatched < MaxEvents /\ \E o \in Originals, c \in Contents :
            edit_hook(o, c)
    \/ \E t \in Tasks : edit_hook_old_objects(t)
    \/ \E t \in Tasks : edit_hook_new_objects(t)
    \/ dispatched < MaxEvents /\ \E o \in Originals : delete_hook(o)
    \/ \E m \in Existing : delete_hook_bot(m)
    \/ dispatched < MaxEvents /\ \E m \in Existing : ReplyRemoved(m)
    \/ PipelineTick

NextZig ==
    \/ dispatched < MaxEvents /\ \E o \in Originals, c \in ZigFirstTexts :
            check_for_zig_code(o, c)
    \/ \E t \in Tasks : check_for_zig_code_output(t)
    \/ \E t \in Tasks, outcome \in {"ok", "NotFound", "HTTPException"} :
            \/ check_for_zig_code_sent(t, outcome)
            \/ remove_view_after_timeout(t, outcome)
            \/ edit_hook_deleted(t, outcome)
            \/ edit_hook_edited(t, outcome)
            \/ codeblock_linker_delete_reply_deleted(t, outcome)
    \/ dispatched < MaxEvents /\ \E o \in Originals, c \in ZigContents :
            on_message_edit(o, c)
    \/ \E t \in Tasks : on_message_edit_old_output(t)
    \/ \E t \in Tasks : on_message_edit_new_output(t)
    \/ dispatched < MaxEvents /\ \E o \in Originals : codeblock_linker_delete(o)
    \/ \E m \in Existing : codeblock_linker_delete_bot(m)
    \/ dispatched < MaxEvents /\ \E o \in Originals : freeze(o)
    \/ dispatched < MaxEvents /\ \E m \in Existing : ReplyRemoved(m)
    \/ PipelineTick

\* The handlers of one original and its replies, interleaved.
NextRace ==
    \/ \E c \in FirstTexts : reply_with_comments(1, c)
    \/ \E t \in Tasks : reply_with_comments_embeds(t)
    \/ \E t \in Tasks, outcome \in {"ok", "NotFound", "HTTPException"} :
            \/ reply_with_comments_sent(t, outcome)
            \/ reply_with_comments_suppressed(t, outcome)
            \/ remove_view_after_timeout(t, outcome)
            \/ edit_hook_deleted(t, outcome)
            \/ edit_hook_edited(t, outcome)
            \/ delete_hook_reply_deleted(t, outcome)
    \/ \E c \in Contents : edit_hook(1, c)
    \/ \E t \in Tasks : edit_hook_old_objects(t)
    \/ \E t \in Tasks : edit_hook_new_objects(t)
    \/ delete_hook(1)
    \/ \E m \in Existing : delete_hook_bot(m)
    \/ \E m \in Existing : ReplyRemoved(m)

NextCache ==
    \/ \E c \in Callers, key \in RepoNames : Get(c, key)
    \/ \E f \in inflight : \E outcome \in Outcomes(f.key) : FetchDone(f, outcome)
    \/ Tick

SpecHooks == Init /\ [][NextHooks]_vars

SpecZig == Init /\ [][NextZig]_vars

SpecRace == Init /\ [][NextRace]_vars

\* The code block feature's handlers of one original, interleaved with the
\* manual action that freezes it.
NextFrozen ==
    \/ \E c \in ZigFirstTexts : check_for_zig_code(1, c)
    \/ \E t \in Tasks : check_for_zig_code_output(t)
    \/ \E t \in Tasks, outcome \in {"ok", "NotFound", "HTTPException"} :
            \/ check_for_zig_code_sent(t, outcome)
            \/ remove_view_after_timeout(t, outcome)
            \/ edit_hook_deleted(t, outcome)
            \/ edit_hook_edited(t, outcome)
    \/ \E c \in ZigContents : on_message_edit(1, c)
    \/ \E t \in Tasks : on_message_edit_old_output(t)
    \/ \E t \in Tasks : on_message_edit_new_output(t)
    \/ \E m \in Existing : codeblock_linker_delete_bot(m)
    \/ freeze(1)

SpecFrozen == Init /\ [][NextFrozen]_vars

\* The emojis an application can hold when the bot logs in: at most one
\* under each name, with the shipped image or a former one.
Candidates ==
    {[id |-> 1, name |-> "issue_open", image |-> "shipped"],
     [id |-> 2, name |-> "issue_open", image |-> "former"],
     [id |-> 3, name |-> "pull_open", image |-> "shipped"],
     [id |-> 4, name |-> "pull_open", image |-> "former"],
     [id |-> 5, name |-> "party", image |-> "former"]}
Uploaded ==
    {es \in SUBSET Candidates : \A e, f \in es : e.name = f.name => e = f}

InitEmojis ==
    /\ cache = <<>>
    /\ clock = 0
    /\ inflight = {}
    /\ started = 0
    /\ callers = [c \in Callers |-> Idle]
    /\ lastFetch = [id |-> 0, key |-> "", outcome |-> ""]
    /\ refs = <<>>
    /\ now = 0
    /\ sent = 0
    /\ lastCall = [op |-> "", raised |-> "", ret |-> FALSE]
    /\ content = [o \in Originals |-> NoContent]
    /\ posted = <<>>
    /\ tasks = [t \in Tasks |-> IdleTask]
    /\ events = {}
    /\ dispatched = 0
    /\ frozen = {}
    /\ text = <<>>
    /\ scan = 1
    /\ match = NoMatch
    /\ yielded = <<>>
    /\ valid_signatures = 0
    /\ gen = "idle"
    /\ edits = 0
    /\ resolved = {}
    /\ search = NoSearch
    /\ emojis_loaded = FALSE
    /\ ghostty_emojis = [name \in EmojiNames |-> Missing]
    /\ application_emojis \in Uploaded
    /\ emoji_ids = Cardinality(Candidates)
    /\ loader = NoLoader

\* on_ready calls load_emojis at every login.
NextEmojis ==
    \/ \E files \in {"ok", "OSError"} : load_emojis(files)
    \/ \E outcome \in {"ok", "HTTPException"} :
            \/ fetch_application_emojis(outcome)
            \/ emoji_read(outcome)
            \/ emoji_delete(outcome)
            \/ create_application_emoji(outcome)

SpecEmojis == InitEmojis /\ [][NextEmojis]_vars

\* An original with two linked replies, as two create paths of it leave it:
\* both replies posted for its text, their views removed, every handler over.
TwoReplies ==
    [m \in {ReplyId(1), ReplyId(2)} |->
        [shows |-> 1, view |-> FALSE, created_at |-> 0, edited_at |-> None,
         deleted |-> FALSE]]

InitReplies ==
    /\ cache = <<>>
    /\ clock = 0
    /\ inflight = {}
    /\ started = 0
    /\ callers = [c \in Callers |-> Idle]
    /\ lastFetch = [id |-> 0, key |-> "", outcome |-> ""]
    /\ refs = <<[key |-> 1, replies |-> <<ReplyId(1), ReplyId(2)>>]>>
    /\ now = 0
    /\ sent = 2
    /\ lastCall = [op |-> "", raised |-> "", ret |-> FALSE]
    /\ content = [o \in Originals |->
            IF o = 1 THEN [raw |-> "b", count |-> 1, live |-> TRUE]
            ELSE NoContent]
    /\ posted = TwoReplies
    /\ tasks = [t \in Tasks |-> IdleTask]
    /\ events = {}
    /\ dispatched = 0
    /\ frozen = {}
    /\ text = <<>>
    /\ scan = 1
    /\ match = NoMatch
    /\ yielded = <<>>
    /\ valid_signatures = 0
    /\ gen = "idle"
    /\ edits = 0
    /\ resolved = {}
    /\ search = NoSearch
    /\ emojis_loaded = FALSE
    /\ ghostty_emojis = [name \in EmojiNames |-> Missing]
    /\ application_emojis = {}
    /\ emoji_ids = 0
    /\ loader = NoLoader

\* The edit handlers of that original, and what they start.
NextReplies ==
    \/ \E c \in Contents : edit_hook(1, c)
    \/ \E t \in Tasks : edit_hook_old_objects(t)
    \/ \E t \in Tasks : edit_hook_new_objects(t)
    \/ \E t \in Tasks : reply_with_comments_embeds(t)
    \/ \E t \in Tasks, outcome \in {"ok", "NotFound", "HTTPException"} :
            \/ reply_with_comments_sent(t, outcome)
            \/ reply_with_comments_suppressed(t, outcome)
            \/ remove_view_after_timeout(t, outcome)
            \/ edit_hook_deleted(t, outcome)
            \/ edit_hook_edited(t, outcome)
    \/ \E m \in Existing : delete_hook_bot(m)

SpecReplies == InitReplies /\ [][NextReplies]_vars

SpecParser == Init /\ [][NextParser]_vars

SpecCache == Init /\ [][NextCache]_vars

NextResolver ==
    \/ \E key \in RepoNames : OwnerCache_fetch(key)
    \/ \E resp \in Responses : async_repos(resp)
    \/ Tick

SpecResolver == Init /\ [][NextResolver]_vars

SpecLinker == Init /\ [][NextLinker]_vars

----------------------------------------------------------------------------
(* Claims about the owner cache.                                           *)

FetchesFor(key) == {f \in inflight : f.key = key}
WaitingOn(key) == {c \in Callers : callers[c].pc = "waiting" /\ callers[c].key = key}

C1_OneFetchPerKey ==
    \A key \in RepoNames :
        Cardinality(FetchesFor(key)) = IF WaitingOn(key) = {} THEN 0 ELSE 1

C1_Step ==
    /\ \A c \in Callers :
        (callers[c].pc # "waiting" /\ callers'[c].pc = "waiting") =>
            IF FetchesFor(callers'[c].key) # {}
            THEN started' = started /\ inflight' = inflight
            ELSE /\ started' = started + 1
                 /\ inflight' = inflight \cup {[id |-> started', key |-> callers'[c].key]}
    /\ \A c1, c2 \in Callers :
        (/\ callers[c1].pc = "waiting" /\ callers[c2].pc = "waiting"
         /\ callers[c1].key = callers[c2].key
         /\ callers'[c1].pc # "waiting") =>
            /\ callers'[c2].pc = callers'[c1].pc
            /\ callers'[c2].result = callers'[c1].result

\* C1: concurrent get calls for one key that has no entry or an expired one
\* start exactly one fetch, no key ever has two fetches in flight, and the
\* callers waiting on a key all resume together with the same value or the
\* same failure.
C1_Dedup == []C1_OneFetchPerKey /\ [][C1_Step]_vars

C1_Witness ==
    /\ started = 1
    /\ \A c \in Callers : callers[c].pc \in {"returned", "raised"} /\ callers[c].fut = 1

\* C2: a get waits on a fetch exactly when its key has no entry or an entry
\* as old as the refresh time; within the refresh time it returns the stored
\* value at once and starts no fetch.
C2_Freshness ==
    [][\A c \in Callers :
        (callers[c].pc # "waiting" /\ callers'[c] # callers[c]) =>
            LET key == callers'[c].key
            IN  IF key \in DOMAIN cache /\ clock - cache[key].at < Ttr
                THEN /\ callers'[c].pc = "returned"
                     /\ callers'[c].result = cache[key].value
                     /\ started' = started
                     /\ inflight' = inflight
                ELSE /\ callers'[c].pc = "waiting"
                     /\ \E f \in inflight' : f.id = callers'[c].fut /\ f.key = key]_vars

C2_Witness ==
    \E c \in Callers :
        /\ callers[c].pc = "returned"
        /\ callers[c].fut = 0
        /\ clock > cache[callers[c].key].at
        /\ started = 1

\* C3: a fetch that fails leaves the cache as it was, every caller waiting on
\* it gets that failure, and the key is left without a fetch in flight and
\* without a fresh entry, so that the next get for it starts a new fetch.
C3_FailedFetch ==
    [][/\ (lastFetch'.id # lastFetch.id /\ IsFailure(lastFetch'.outcome)) =>
            /\ cache' = cache
            /\ \A c \in Callers :
                (callers[c].pc = "waiting" /\ callers[c].fut = lastFetch'.id) =>
                    /\ callers'[c].pc = "raised"
                    /\ callers'[c].result = lastFetch'.outcome
            /\ \A f \in inflight' : f.key # lastFetch'.key
            /\ ~(lastFetch'.key \in DOMAIN cache'
                    /\ clock' - cache'[lastFetch'.key].at < Ttr)
       /\ \A c \in Callers :
            (/\ callers[c].pc # "waiting" /\ callers'[c] # callers[c]
             /\ IsFailure(lastFetch.outcome) /\ callers'[c].key = lastFetch.key
             /\ FetchesFor(lastFetch.key) = {}) =>
                /\ callers'[c].pc = "waiting"
                /\ started' = started + 1]_vars

C3_Witness ==
    /\ IsFailure(lastFetch.outcome)
    /\ lastFetch.key \notin DOMAIN cache
    /\ \E c \in Callers : callers[c].pc = "raised" /\ callers[c].fut = lastFetch.id
    /\ \E f \in inflight : f.key = lastFetch.key /\ f.id > lastFetch.id

----------------------------------------------------------------------------
(* Claims about the message link registry.                                 *)

Messages == Originals \cup ReplyIds
Holders(r, m) == {i \in 1..Len(r) : m \in Range(r[i].replies)}
Untracked(r, m) == Holders(r, m) = {}

\* C5: unlink never fails, whether the original is tracked, was never seen
\* or is already unlinked, and the original has no replies afterwards.
C5_UnlinkIdempotent ==
    [][\A x \in Originals :
        CallUnlink(x) => lastCall'.raised = "" /\ Stored(refs', x) = <<>>]_vars

C6_Lookup ==
    /\ \A i \in 1..Len(refs) : \A m \in Range(refs[i].replies) :
            get_original_message(refs, m) = refs[i].key
    /\ \A m \in Messages : Untracked(refs, m) => get_original_message(refs, m) = None

C6_AfterUnlink ==
    \A o \in Originals :
        (CallUnlink(o) /\ lastCall'.raised = "") =>
            \A m \in Range(Stored(refs, o)) : get_original_message(refs', m) = None

\* C6: the reverse lookup of a reply gives the original in whose reply
\* sequence it is, none for a message in no reply sequence, and none for
\* every reply of an original once that original is unlinked.
C6_ReverseLookup == []C6_Lookup /\ [][C6_AfterUnlink]_vars

C6_Witness ==
    /\ \E i \in 1..Len(refs) : i > 1 /\ Len(refs[i].replies) >= 2
    /\ \E m \in Existing : Untracked(refs, m)
    /\ lastCall.op = "get_original_message"

C7_InLinkOrder ==
    \A i \in 1..Len(refs) : \A j, k \in 1..Len(refs[i].replies) :
        j < k => refs[i].replies[j] < refs[i].replies[k]

C7_Step ==
    \A o \in Originals, n \in 1..MaxLinkArgs :
        CallLink(o, n) =>
            /\ lastCall'.raised = ""
            /\ Stored(refs', o) = Stored(refs, o) \o [i \in 1..n |-> ReplyId(sent + i)]
            /\ \A other \in Originals \ {o} : Stored(refs', other) = Stored(refs, other)

\* C7: link never fails and appends the replies it is given, in order, to the
\* end of the original's reply sequence, creating it when absent; every reply
\* sequence holds its replies in the order they were linked, and the reply
\* sequences of the other originals stay as they were.
C7_LinkAppends == []C7_InLinkOrder /\ [][C7_Step]_vars

C7_Witness ==
    /\ lastCall.op = "link"
    /\ \E i, j \in 1..Len(refs) :
        i # j /\ Len(refs[i].replies) >= 2 /\ Len(refs[j].replies) >= 1

SameOutcome(a, b) ==
    /\ a.raised = b.raised
    /\ \A x \in Originals : Stored(a.refs, x) = Stored(b.refs, x)

\* C9: an original without an entry and the same original with an empty
\* reply sequence behave alike under every registry operation: the same
\* results, the same failures, the same reply sequences afterwards.
C9_EmptyIsUntracked ==
    \A x \in Originals :
        x \notin Keys(refs) =>
            LET e == getitem(refs, x)
            IN  /\ get(refs, x).ret = get(e, x).ret
                /\ \A m \in Messages :
                        get_original_message(refs, m) = get_original_message(e, m)
                /\ \A y \in Originals, n \in 1..MaxLinkArgs :
                        LET replies == [i \in 1..n |-> ReplyId(sent + i)]
                        IN  \A z \in Originals :
                                Stored(link(refs, y, replies), z)
                                    = Stored(link(e, y, replies), z)
                /\ \A m \in Messages :
                        SameOutcome(unlink_from_reply(refs, m), unlink_from_reply(e, m))
                /\ \A m \in Messages, st \in StampsAt(now) :
                        /\ SameOutcome(unlink_if_expired(refs, m, st, now),
                                       unlink_if_expired(e, m, st, now))
                        /\ unlink_if_expired(refs, m, st, now).ret
                                = unlink_if_expired(e, m, st, now).ret
                /\ \A y \in Originals : SameOutcome(unlink(refs, y), unlink(e, y))

\* C10: unlink_from_reply never fails; for a reply held in an original's
\* reply sequence it removes that whole sequence, so that none of its replies
\* has an original afterwards, and leaves the other originals alone; for a
\* message held nowhere it leaves the registry as it was.
C10_UnlinkFromReply ==
    [][\A m \in Messages :
        CallUnlinkFromReply(m) =>
            /\ lastCall'.raised = ""
            /\ \A i \in 1..Len(refs) :
                IF m \in Range(refs[i].replies)
                THEN /\ Stored(refs', refs[i].key) = <<>>
                     /\ \A x \in Range(refs[i].replies) : Untracked(refs', x)
                ELSE Holders(refs, m) # {} => Stored(refs', refs[i].key) = refs[i].replies
            /\ Untracked(refs, m) => refs' = refs]_vars

C10_Witness ==
    /\ lastCall.op = "unlink_from_reply"
    /\ \E m \in Existing : Untracked(refs, m) /\ Untracked(refs, m + 1) /\ m + 1 \in Existing
    /\ \E i \in 1..Len(refs) : refs[i].replies # <<>>

\* C11: unlink_if_expired returns true exactly when the reply's last update
\* (its edit time if it was edited, otherwise its creation time) lies more
\* than 24 hours before now; when it returns true the original holding the
\* reply is untracked in the same step, and when it returns false the
\* registry is unchanged.  The clock counts days, so more than 24 hours is
\* more than one tick.
LastUpdate(st) == IF st.edited_at = None THEN st.created_at ELSE st.edited_at

C11_ExpiryCheck ==
    [][\A m \in Existing : \A st \in StampsAt(now) :
        CallUnlinkIfExpired(m, st) =>
            /\ lastCall'.ret <=> (now - LastUpdate(st) > 1)
            /\ lastCall'.ret =>
                    /\ Untracked(refs', m)
                    /\ \A i \in Holders(refs, m) :
                            Stored(refs', refs[i].key) = <<>>
            /\ ~lastCall'.ret => refs' = refs]_vars

C11_Witness ==
    /\ lastCall.op = "unlink_if_expired"
    /\ lastCall.ret
    /\ lastCall.raised = ""
    /\ now = MaxNow
    /\ \E m \in Existing : Untracked(refs, m)
    /\ \E o \in Originals : Stored(refs, o) # <<>>

----------------------------------------------------------------------------
(* Claims about the reaction pipeline.                                     *)

\* What a step leaves alone when it sends, edits, deletes and unlinks nothing.
Quiet == UNCHANGED <<refs, posted, sent, events>>
OthersKept(t) == \A u \in Tasks \ {t} : tasks'[u] = tasks[u]
Over(t) == tasks'[t].pc = "done"
Old(t) == message_processor(tasks[t].before)
New(t) == message_processor(tasks[t].after)
Tracked(o) == Stored(refs, o) # <<>>
FirstReply(o) == Stored(refs, o)[1]
Expired(m) == now - LastUpdate(posted[m]) > 1

\* C12: an edit event whose before and after text are identical sends, edits
\* and deletes nothing, starts no processing (the handler is over at once and
\* no other task moves), and leaves the registry as it was.
C12_SameContent ==
    [][\A o \in Originals, c \in Contents :
        (edit_hook(o, c) /\ SameText(content[o], c)) =>
            /\ Quiet
            /\ Over(Slot)
            /\ tasks'[Slot].path = "same_content"
            /\ OthersKept(Slot)]_vars

C12_Witness ==
    \E t \in Tasks :
        /\ tasks[t].kind = "edit"
        /\ tasks[t].path = "same_content"
        /\ Tracked(tasks[t].msg)
        /\ Posted(FirstReply(tasks[t].msg))

\* The same of the code block feature's handler.
C12_SameContentZig ==
    [][\A o \in Originals, c \in Contents :
        (on_message_edit(o, c) /\ SameText(content[o], c)) =>
            Quiet /\ Over(Slot) /\ OthersKept(Slot)]_vars

\* C13: when the text changed but the processed content of before and of
\* after are equal, the edit handler sends, edits and deletes nothing and
\* unlinks nothing, whether or not the original is tracked.  Stated of the
\* code block feature's handler, from the event to its return.
C13_SameObjects ==
    [][/\ \A o \in Originals, c \in Contents :
            (/\ on_message_edit(o, c)
             /\ ~SameText(content[o], c)
             /\ message_processor(content[o]) = message_processor(c)) => Quiet
       /\ \A t \in Tasks :
            on_message_edit_old_output(t) => Quiet
       /\ \A t \in Tasks :
            (on_message_edit_new_output(t) /\ Old(t) = New(t)) =>
                Quiet /\ Over(t) /\ OthersKept(t)]_vars

\* The same of the handler create_edit_hook makes.
C13_SameObjectsHook ==
    [][/\ \A o \in Originals, c \in Contents :
            (/\ edit_hook(o, c)
             /\ ~SameText(content[o], c)
             /\ message_processor(content[o]) = message_processor(c)) => Quiet
       /\ \A t \in Tasks :
            edit_hook_old_objects(t) => Quiet
       /\ \A t \in Tasks :
            (edit_hook_new_objects(t) /\ Old(t) = New(t)) =>
                Quiet /\ Over(t) /\ OthersKept(t)]_vars

C13_HookWitness ==
    \E t \in Tasks :
        /\ tasks[t].kind = "edit"
        /\ tasks[t].path = "same_objects"
        /\ Tracked(tasks[t].msg)

\* C14: edit-to-empty.  When an original tracked with one reply is edited so
\* that the new item count is 0, and the link is not expired, the handler
\* untracks the original and awaits the deletion of that reply; when the
\* platform has deleted it, the reply is gone and the handler returns.
C14_EditToEmpty ==
    [][/\ \A t \in Tasks :
            (/\ edit_hook_new_objects(t)
             /\ Old(t) # New(t)
             /\ Len(Stored(refs, tasks[t].msg)) = 1
             /\ New(t).count = 0
             /\ ~Expired(FirstReply(tasks[t].msg))) =>
                /\ Stored(refs', tasks[t].msg) = <<>>
                /\ tasks'[t].pc = "delete"
                /\ tasks'[t].reply = FirstReply(tasks[t].msg)
                /\ UNCHANGED <<posted, sent>>
       /\ \A t \in Tasks :
            edit_hook_deleted(t, "ok") =>
                /\ posted'[tasks[t].reply].deleted
                /\ tasks'[t].path = "emptied"
                /\ UNCHANGED <<refs, sent>>]_vars

C14_Witness ==
    \E t \in Tasks :
        /\ tasks[t].kind = "edit"
        /\ tasks[t].path = "emptied"
        /\ content[tasks[t].msg].count = 0
        /\ ~Tracked(tasks[t].msg)
        /\ posted[tasks[t].reply].deleted

\* The same of the code block feature's handler, unless it froze the original.
C14_EditToEmptyZig ==
    [][\A t \in Tasks :
        (/\ on_message_edit_new_output(t)
         /\ Old(t) # New(t)
         /\ Len(Stored(refs, tasks[t].msg)) = 1
         /\ New(t).count = 0
         /\ tasks[t].msg \notin frozen) =>
            /\ Stored(refs', tasks[t].msg) = <<>>
            /\ tasks'[t].pc = "delete"
            /\ tasks'[t].reply = FirstReply(tasks[t].msg)]_vars

\* C15: for every new item count <= 0, the negative sentinels included, an
\* edit of a tracked original whose link is not expired untracks the
\* original and awaits the deletion of its reply; it never goes on to edit
\* the reply in place.
C15_NothingLeft ==
    [][\A t \in Tasks :
        (/\ edit_hook_new_objects(t)
         /\ Old(t) # New(t)
         /\ Tracked(tasks[t].msg)
         /\ New(t).count <= 0
         /\ ~Expired(FirstReply(tasks[t].msg))) =>
            /\ Stored(refs', tasks[t].msg) = <<>>
            /\ tasks'[t].pc = "delete"
            /\ tasks'[t].reply = FirstReply(tasks[t].msg)]_vars

\* C16: expiry on edit.  When the edit handler gets to a tracked original
\* whose reply was last updated more than 24 hours ago, it untracks the
\* original and returns without awaiting an edit or a deletion of the reply,
\* whatever the new item count is.
C16_ExpiredOnEdit ==
    [][\A t \in Tasks :
        (/\ edit_hook_new_objects(t)
         /\ Old(t) # New(t)
         /\ Tracked(tasks[t].msg)
         /\ Expired(FirstReply(tasks[t].msg))) =>
            /\ Stored(refs', tasks[t].msg) = <<>>
            /\ Over(t)
            /\ UNCHANGED <<posted, sent, events>>]_vars

\* C17: when the edit handler finds the original untracked and the processed
\* contents differ, it enters the create path on the message if the previous
\* item count was not > 0, and returns having done nothing if it was > 0.
C17_UntrackedEdit ==
    [][\A t \in Tasks :
        (/\ edit_hook_new_objects(t)
         /\ Old(t) # New(t)
         /\ ~Tracked(tasks[t].msg)) =>
            /\ UNCHANGED <<posted, sent, events>>
            /\ \A o \in Originals : Stored(refs', o) = Stored(refs, o)
            /\ IF Old(t).count > 0
               THEN Over(t)
               ELSE tasks'[t].pc = "embeds"]_vars

\* C18: when the original is tracked, its link not expired and the new item
\* count > 0, the handler awaits an edit of the existing reply, sending and
\* deleting nothing and leaving the registry as it was; the edit puts the new
\* content and a new view on that reply and touches no other message.
C18_EditInPlace ==
    [][/\ \A t \in Tasks :
            (/\ edit_hook_new_objects(t)
             /\ Old(t) # New(t)
             /\ Tracked(tasks[t].msg)
             /\ ~Expired(FirstReply(tasks[t].msg))
             /\ New(t).count > 0) =>
                /\ tasks'[t].pc = "edit"
                /\ tasks'[t].reply = FirstReply(tasks[t].msg)
                /\ Quiet
       /\ \A t \in Tasks :
            edit_hook_edited(t, "ok") =>
                /\ posted'[tasks[t].reply].shows = New(t).objects
                /\ posted'[tasks[t].reply].view
                /\ ~posted'[tasks[t].reply].deleted
                /\ \A m \in DOMAIN posted \ {tasks[t].reply} :
                        posted'[m] = posted[m]
                /\ DOMAIN posted' = DOMAIN posted
                /\ UNCHANGED <<refs, sent, events>>]_vars

C18_Witness ==
    \E t \in Tasks :
        /\ tasks[t].kind = "edit"
        /\ tasks[t].path = "edited"
        /\ Stored(refs, tasks[t].msg) = <<tasks[t].reply>>
        /\ posted[tasks[t].reply].shows = content[tasks[t].msg].count
        /\ posted[tasks[t].reply].edited_at # None
        /\ sent = 1

\* The same of the code block feature's handler, unless it froze the original.
C18_EditInPlaceZig ==
    [][\A t \in Tasks :
        (/\ on_message_edit_new_output(t)
         /\ Old(t) # New(t)
         /\ Tracked(tasks[t].msg)
         /\ tasks[t].msg \notin frozen
         /\ New(t).count > 0) =>
            /\ tasks'[t].pc = "edit"
            /\ tasks'[t].reply = FirstReply(tasks[t].msg)
            /\ Quiet]_vars

\* C19: the delete handler, run for a deleted message of the bot, untracks
\* the original holding that message with its whole reply sequence, changes
\* nothing when no original holds it, never fails, and in both cases awaits
\* no platform call and leaves every other original as it was.
C19_BotMessageDeleted ==
    [][\A m \in Existing :
        delete_hook_bot(m) =>
            /\ unlink_from_reply(refs, m).raised = ""
            /\ UNCHANGED <<posted, sent>>
            /\ \A t \in Tasks : tasks'[t].pc = tasks[t].pc
            /\ IF Untracked(refs, m)
               THEN refs' = refs
               ELSE \A i \in 1..Len(refs) :
                        Stored(refs', refs[i].key) =
                            IF m \in Range(refs[i].replies) THEN <<>>
                            ELSE refs[i].replies]_vars

C19_Witness ==
    \E t \in Tasks :
        /\ tasks[t].kind = "create"
        /\ tasks[t].path = "replied"
        /\ Live(tasks[t].msg)
        /\ posted[tasks[t].reply].deleted
        /\ tasks[t].reply \notin events
        /\ ~Tracked(tasks[t].msg)

\* C20: the delete handler of a tracked original awaits the deletion of its
\* linked replies one after the other in the order of the list, the delete
\* events of those replies leave its loop alone, and once it has returned
\* and those events have been handled, every reply of the list is deleted
\* and the original is untracked.
C20_Finished ==
    \A t \in Tasks :
        (/\ tasks[t].kind = "delete"
         /\ tasks[t].path = "deleted"
         /\ Range(tasks[t].replies) \cap events = {}) =>
            /\ \A m \in Range(tasks[t].replies) : posted[m].deleted
            /\ ~Tracked(tasks[t].msg)

C20_Step ==
    /\ \A o \in Originals :
            (delete_hook(o) /\ Tracked(o)) =>
                /\ tasks'[Slot].pc = "delete_reply"
                /\ tasks'[Slot].replies = Stored(refs, o)
                /\ tasks'[Slot].i = 1
    /\ \A t \in Tasks :
            delete_hook_reply_deleted(t, "ok") =>
                LET i == tasks[t].i
                    replies == tasks[t].replies
                IN  /\ posted'[replies[i]].deleted
                    /\ replies[i] \in events'
                    /\ \A j \in 1..Len(replies) :
                            j # i => posted'[replies[j]] = posted[replies[j]]
                    /\ IF i < Len(replies)
                       THEN /\ tasks'[t].pc = "delete_reply"
                            /\ tasks'[t].i = i + 1
                       ELSE tasks'[t].path = "deleted"
    /\ \A m \in Existing :
            delete_hook_bot(m) =>
                \A t \in Tasks :
                    /\ tasks'[t].pc = tasks[t].pc
                    /\ tasks'[t].replies = tasks[t].replies
                    /\ tasks'[t].i = tasks[t].i

Failures == {"NotFound", "HTTPException"}

\* C21: in the loop of the delete handler over the replies of an original,
\* a platform failure while one reply is deleted is swallowed: the handler
\* goes on to the next reply of the list, or returns normally after the
\* last one, and no exception escapes it.
C21_FailureSwallowed ==
    [][\A t \in Tasks, outcome \in Failures :
        delete_hook_reply_deleted(t, outcome) =>
            /\ tasks'[t].path # "raised"
            /\ IF tasks[t].i < Len(tasks[t].replies)
               THEN tasks'[t].pc = "delete_reply" /\ tasks'[t].i = tasks[t].i + 1
               ELSE tasks'[t].path = "deleted"]_vars

\* C22: the removal timer a create path started never strips the controls
\* of its reply while the timer of a later edit of that reply is pending;
\* only the timer of the latest edit does.
C22_TimerRestarted ==
    [][\A t \in Tasks, outcome \in Failures \cup {"ok"} :
        (/\ remove_view_after_timeout(t, outcome)
         /\ tasks[t].pc = "sleep"
         /\ \E u \in Tasks :
                /\ tasks[u].pc = "edit_sleep"
                /\ tasks[u].reply = tasks[t].reply) =>
            posted'[tasks[t].reply].view = posted[tasks[t].reply].view]_vars

\* A reply the create path linked to the original o.
WasLinked(o, m) ==
    \E u \in Tasks :
        /\ tasks[u].msg = o
        /\ tasks[u].reply = m
        /\ (tasks[u].pc = "sleep" \/ tasks[u].path = "replied")

\* The delete handler has run for the deleted reply m of the original o.
UnlinkedByDelete(o, m) ==
    /\ WasLinked(o, m)
    /\ posted[m].deleted
    /\ m \notin events

C24_RepliesLinked ==
    [][/\ \A t \in Tasks :
            reply_with_comments_embeds(t) =>
                (tasks'[t].pc = "reply" <=>
                    message_processor(tasks[t].after).count > 0)
       /\ \A t \in Tasks, outcome \in Failures \cup {"ok"} :
            reply_with_comments_suppressed(t, outcome) =>
                tasks[t].reply \in Range(Stored(refs', tasks[t].msg))]_vars

\* The same of the code block feature's create path.
C24_RepliesLinkedZig ==
    [][/\ \A t \in Tasks :
            check_for_zig_code_output(t) =>
                (tasks'[t].pc = "zig_reply" <=>
                    message_processor(tasks[t].after).count > 0)
       /\ \A t \in Tasks :
            check_for_zig_code_sent(t, "ok") =>
                /\ tasks'[t].reply \in Range(Stored(refs', tasks[t].msg))
                /\ tasks'[t].reply \notin DOMAIN posted
                /\ ~posted'[tasks'[t].reply].deleted]_vars

\* C25: when the send of the first reply fails with a platform error, the
\* error escapes the create path, no reply exists and the registry is as it
\* was.
C25_SendFailure ==
    [][\A t \in Tasks, outcome \in Failures :
        reply_with_comments_sent(t, outcome) =>
            /\ tasks'[t].pc = "done"
            /\ tasks'[t].path = "raised"
            /\ UNCHANGED <<refs, posted, sent>>]_vars

C25_Witness ==
    \E t \in Tasks :
        /\ tasks[t].kind = "create"
        /\ tasks[t].path = "raised"
        /\ tasks[t].reply = 0
        /\ ~Tracked(tasks[t].msg)
        /\ sent = 0

\* The same of the code block feature's create path.
C25_SendFailureZig ==
    [][\A t \in Tasks, outcome \in Failures :
        check_for_zig_code_sent(t, outcome) =>
            /\ tasks'[t].pc = "done"
            /\ tasks'[t].path = "raised"
            /\ UNCHANGED <<refs, posted, sent>>]_vars

----------------------------------------------------------------------------
(* Claims about the signature parser.                                      *)

\* The match of the turn for_match takes, and what a step yields.
Found == finditer(text, scan)
Yields(sig) ==
    /\ yielded' = Append(yielded, sig)
    /\ valid_signatures' = valid_signatures + 1
NothingYielded == UNCHANGED <<yielded, valid_signatures>>
Bare(m) == m.owner = <<>> /\ m.repo = <<>>
Full(m) == m.owner # <<>> /\ m.repo # <<>>
DefaultSignature(m) == <<GITHUB_ORG, GITHUB_REPOS.main, int(m.number)>>
FullSignature(m) ==
    <<SubSeq(m.owner, 1, Len(m.owner) - 1), m.repo, int(m.number)>>
Text(ws) == Join(ws)

\* C26: the parser goes through the matches from left to right and only
\* ever appends to what it has yielded; a match with neither owner nor repo
\* (of 10 or more, or with a site prefix) yields the default organization,
\* its main repository and the number, a match with both yields the owner
\* without its trailing slash, the repo and the number; the text
\* "see #42 and org/repo#7 and https://github.com/a/b/issues/9" yields
\* exactly (default org, main repo, 42), (org, repo, 7), (a, b, 9).
C26_Sample ==
    (text = Sample /\ gen = "exhausted") =>
        yielded = << <<GITHUB_ORG, GITHUB_REPOS.main, 42>>,
                     << <<"o", "r", "g">>, <<"r", "e", "p", "o">>, 7 >>,
                     << <<"a">>, <<"b">>, 9 >> >>

C26_Step ==
    /\ \/ yielded' = yielded
       \/ /\ Len(yielded') = Len(yielded) + 1
          /\ SubSeq(yielded', 1, Len(yielded)) = yielded
    /\ (for_match /\ Found # NoMatch) =>
            /\ scan' = Found.end
            /\ scan' > scan
            /\ (/\ Found.site = <<>>
                /\ Found.sep = Hash
                /\ Bare(Found)
                /\ int(Found.number) >= 10) => Yields(DefaultSignature(Found))
            /\ (Found.site = <<>> /\ Found.sep = Hash /\ Full(Found)) =>
                    Yields(FullSignature(Found))
    /\ message_edit("ok") =>
            /\ Bare(match) => Yields(DefaultSignature(match))
            /\ Full(match) => Yields(FullSignature(match))

C26_InOrder == []C26_Sample /\ [][C26_Step]_vars

C26_Witness ==
    /\ text = Sample
    /\ gen = "exhausted"
    /\ Len(yielded) = 3
    /\ edits = 1

\* A later match of the text that yields a signature whatever the remote
\* search answers.
RECURSIVE ValidAfter(_, _)
ValidAfter(s, p) ==
    LET m == finditer(s, p)
    IN  IF m = NoMatch THEN FALSE
        ELSE \/ /\ (m.site # <<>>) # (m.sep = Hash)
                /\ \/ Full(m)
                   \/ Bare(m) /\ (int(m.number) >= 10 \/ m.site # <<>>)
             \/ ValidAfter(s, m.end)

\* C27: the parser never yields more than 10 signatures, and it stops with
\* fewer than 10 only when no valid signature is left in the text: matches
\* it discarded, or skipped because the owner was not resolved, do not count
\* toward the cap.
C27_Cap ==
    /\ Len(yielded) <= MaxSignatures
    /\ (gen = "exhausted" /\ Len(yielded) < MaxSignatures) =>
            ~ValidAfter(text, scan)

\* C28: a match with neither owner nor repo, no site prefix and a number
\* below 10 yields nothing and is not counted; the same with a number of 10
\* or more yields exactly one signature, of the default organization and its
\* main repository; so "#3" yields nothing and "#42" one signature.
C28_Texts ==
    gen = "exhausted" =>
        /\ text = Text(<< <<"#", "3">> >>) => yielded = <<>>
        /\ text = Text(<< <<"#", "4", "2">> >>) =>
                yielded = << <<GITHUB_ORG, GITHUB_REPOS.main, 42>> >>

C28_Step ==
    (/\ for_match
     /\ Found # NoMatch
     /\ Found.site = <<>>
     /\ Found.sep = Hash
     /\ Bare(Found)) =>
        IF int(Found.number) < 10
        THEN NothingYielded /\ gen' = "scan"
        ELSE Yields(DefaultSignature(Found))

C28_Noise == []C28_Texts /\ [][C28_Step]_vars

C28_Witness ==
    /\ gen = "exhausted"
    /\ text = Text(<< <<"#", "3">>, <<"#", "4", "2">> >>)
    /\ yielded = << <<GITHUB_ORG, GITHUB_REPOS.main, 42>> >>
    /\ valid_signatures = 1

\* C29: a match with an owner and no repo yields nothing, whatever its
\* number, and is not counted toward the cap; "foo/#123" yields nothing.
C29_Texts ==
    (gen = "exhausted" /\ text = Text(<< <<"f", "o", "o", "/", "#", "1", "2", "3">> >>)) =>
        yielded = <<>> /\ valid_signatures = 0

C29_Step ==
    /\ (/\ for_match
        /\ Found # NoMatch
        /\ Found.owner # <<>>
        /\ Found.repo = <<>>) => NothingYielded /\ gen' \in {"scan", "edit"}
    /\ (/\ message_edit("ok")
        /\ match.owner # <<>>
        /\ match.repo = <<>>) => NothingYielded /\ gen' = "scan"

C29_Malformed == []C29_Texts /\ [][C29_Step]_vars

\* Eleven malformed matches and a valid one after them: one signature.
C29_Witness ==
    /\ gen = "exhausted"
    /\ match.number = <<"4", "2">>
    /\ \E n \in (MaxRepeat - 1)..MaxRepeat :
            text = Text([k \in 1..(n + 1) |->
                            IF k <= n
                            THEN <<"f", "o", "o", "/", "#", "1", "2", "3">>
                            ELSE <<"#", "4", "2">>])
    /\ yielded = << <<GITHUB_ORG, GITHUB_REPOS.main, 42>> >>
    /\ valid_signatures = 1

\* C30: a match passes the separator check exactly when it has a site prefix
\* and a path-style separator, or no site prefix and the separator "#"; a
\* match that does not pass is dropped before anything is awaited, yielded
\* or counted, and one that passes goes on: the link preview is suppressed
\* for a site prefix, a full owner/repo#number is yielded.
Passes(m) ==
    \/ m.site # <<>> /\ casefold(m.sep) \in PathSeparators
    \/ m.site = <<>> /\ m.sep = Hash

C30_SeparatorCheck ==
    [][(for_match /\ Found # NoMatch) =>
        IF Passes(Found)
        THEN /\ Found.site # <<>> => gen' = "edit"
             /\ (Found.site = <<>> /\ Full(Found)) =>
                    Yields(FullSignature(Found))
        ELSE /\ NothingYielded
             /\ gen' = "scan"
             /\ UNCHANGED edits]_vars

C30_Witness ==
    /\ gen = "exhausted"
    /\ text = Text(<< <<"h", "t", "t", "p", "s", ":", "/", "/", "g", "i", "t",
                        "h", "u", "b", ".", "c", "o", "m", "/", "a", "/", "b",
                        "#", "9">>,
                      <<"a", "/", "b", "/", "p", "u", "l", "l", "/", "9">> >>)
    /\ yielded = <<>>
    /\ edits = 0
    /\ scan > 1

\* C31: when the owner of a bare repository name is not resolved (the search
\* fails, or finds no repository of that name), the failure does not leave
\* the parser, nothing is yielded for that match, and the scan goes on: the
\* parser does not end there while a valid match is left in the text.
C31_SkippedSilently ==
    [][(gen = "get" /\ gen' # "get" /\ yielded' = yielded) =>
            /\ gen' # "raised"
            /\ gen' = "exhausted" => ~ValidAfter(text, scan)]_vars

\* C32: a match without an owner whose repo is a key of the alias table
\* (ghostty, main, web, website, discord-bot, bot, bobr) yields the default
\* organization with the repository the alias stands for, and the owner
\* cache is never asked about an alias.
C32_Step ==
    (/\ for_match
     /\ Found # NoMatch
     /\ ~WrongSeparator(Found)
     /\ Found.site = <<>>
     /\ Found.owner = <<>>
     /\ Found.repo \in DOMAIN REPO_ALIASES) =>
        Yields(<<GITHUB_ORG, REPO_ALIASES[Found.repo], int(Found.number)>>)

C32_Aliases ==
    /\ [](gen = "get" => match.repo \notin DOMAIN REPO_ALIASES)
    /\ [][C32_Step]_vars

\* C33: the parser itself changes nothing on the platform: scanning a
\* message, with or without site-prefixed matches, never edits it.
C33_NoMutation == [][edits' = edits]_vars

----------------------------------------------------------------------------
(* Claims about the owner resolver's fetch.                                *)

Items == search.resp.items
Exact == {i \in 1..Len(Items) : Items[i].name = search.name}
Owned == {i \in Exact : Items[i].owner # NoOwner}
First(hits) == CHOOSE i \in hits : \A j \in hits : i <= j
Answered == search.pc = "done" /\ search.resp.ok
FetchEnds == search.pc = "searching" /\ search'.pc = "done"
FetchFailed == FetchEnds /\ IsFailure(search'.outcome)

\* C34 as stated: the fetch returns the owner of the first search result
\* whose name is the requested name, and fails, installing nothing, when no
\* result has that name.
C34_FirstExactMatch ==
    /\ [](Answered =>
            IF Exact # {} THEN search.outcome = Items[First(Exact)].owner
            ELSE IsFailure(search.outcome))
    /\ [][FetchFailed => cache' = cache]_vars

\* C34 (amended): the fetch returns the owner of the first search result, in
\* the order the search returned them, whose name is the requested name and
\* which has an owner, and stores it; when no result qualifies, or the search
\* itself fails, the fetch fails and the cache stays as it was.
C34_Answer ==
    /\ Answered =>
            IF Owned # {} THEN search.outcome = Items[First(Owned)].owner
            ELSE search.outcome = "RuntimeError"
    /\ (search.pc = "done" /\ ~search.resp.ok) =>
            search.outcome = "RequestFailed"

C34_Step ==
    /\ FetchFailed => cache' = cache
    /\ (FetchEnds /\ ~IsFailure(search'.outcome)) =>
            /\ search.name \in DOMAIN cache'
            /\ cache'[search.name] = [value |-> search'.outcome, at |-> clock]
            /\ \A k \in DOMAIN cache' \ {search.name} :
                    k \in DOMAIN cache /\ cache'[k] = cache[k]

C34_FirstOwnedMatch == []C34_Answer /\ [][C34_Step]_vars

C34_Witness ==
    /\ Answered
    /\ Len(Items) = 2
    /\ Exact = {1, 2}
    /\ Owned = {2}
    /\ search.outcome = Items[2].owner
    /\ search.name \in DOMAIN cache
    /\ cache[search.name].value = Items[2].owner

----------------------------------------------------------------------------
(* Claims about interleaved handlers of one original.                      *)

\* Every handler that was started is over, none through an exception, and
\* no delete event of a reply is still to be dispatched.
AllFinished ==
    /\ \A t \in Tasks : tasks[t].pc \in {"idle", "done"}
    /\ \A t \in Tasks : tasks[t].path # "raised"
    /\ events = {}
OnlyCreateAndEdit == \A t \in Tasks : tasks[t].kind \in {"", "create", "edit"}

\* C35: once the create and edit handlers of an original have all finished,
\* however they interleaved, every reply still linked to the original and
\* still posted shows the processor's output for the text the original has
\* now.
C35_Synchronized ==
    \A o \in Originals :
        (AllFinished /\ OnlyCreateAndEdit /\ Live(o)) =>
            \A i \in 1..Len(Stored(refs, o)) :
                Posted(Stored(refs, o)[i]) =>
                    posted[Stored(refs, o)[i]].shows =
                        message_processor(content[o]).objects

\* C36: however the create and edit handlers of one original interleave,
\* the registry never holds more than one reply for it.
C36_OneReply ==
    OnlyCreateAndEdit => \A o \in Originals : Len(Stored(refs, o)) <= 1

\* The original o is deleted and a create path of it (started by the message
\* or by an edit handler's interactor) is still in flight, its reply not yet
\* sent or not yet linked, and no other reply is posted.
DeletedInFlight(o) ==
    /\ ~Live(o)
    /\ Stored(refs, o) = <<>>
    /\ \E t \in Tasks :
            /\ tasks[t].msg = o
            /\ tasks[t].kind \in {"create", "edit"}
            /\ tasks[t].pc \in {"embeds", "reply", "suppress"}
            /\ \A m \in DOMAIN posted : Posted(m) => m = tasks[t].reply

\* Every handler is over, no delete event is pending, and neither a posted
\* reply of o nor a link of o is left.
HandlersOver == events = {} /\ \A t \in Tasks : tasks[t].pc \in {"idle", "done"}
NothingLeft(o) ==
    /\ Stored(refs, o) = <<>>
    /\ \A t \in Tasks : tasks[t].msg = o => ~Posted(tasks[t].reply)

\* C37: when an original is deleted while its create path is in flight,
\* then once every handler has finished no reply to it remains posted and
\* the registry holds no reply for it: a step that ends the last handler of
\* such an original leaves nothing behind.
C37_NothingLeft ==
    [][\A o \in Originals :
           (DeletedInFlight(o) /\ HandlersOver') => NothingLeft(o)']_vars

\* C38: when an original with several linked replies is edited to a text
\* without items, every one of its replies is deleted: once the handlers are
\* over and the original is untracked and still without items, none of its
\* replies is posted.
C38_AllDeleted ==
    \A o \in Originals :
        (/\ HandlersOver
         /\ \A t \in Tasks : tasks[t].path # "raised"
         /\ \E t \in Tasks : tasks[t].msg = o /\ tasks[t].path = "emptied"
         /\ Live(o)
         /\ content[o].count = 0
         /\ ~Tracked(o)) =>
            \A m \in DOMAIN posted : ~Posted(m)

----------------------------------------------------------------------------
(* Claims about frozen originals of the code block feature.                *)

\* C39: an edit handler of the code block feature that finds its original
\* frozen, tracked or not and whatever the item counts of the old and the
\* new text, is over at once: it sends no reply, awaits neither an edit nor
\* a deletion of a reply, and leaves the registry and every posted message
\* as they were; the edit event of a frozen original itself touches no reply.
C39_Decision ==
    \A t \in Tasks :
        (/\ on_message_edit_new_output(t)
         /\ tasks[t].msg \in frozen) =>
            /\ Over(t)
            /\ tasks'[t].path \in {"same_objects", "frozen"}
            /\ OthersKept(t)
            /\ Quiet

C39_Event ==
    \A o \in Originals, c \in ZigContents :
        (on_message_edit(o, c) /\ o \in frozen) =>
            /\ UNCHANGED <<posted, sent, events>>
            /\ tasks'[Slot].pc \in {"done", "old_output"}

C39_Frozen == [][C39_Decision /\ C39_Event]_vars

\* An edit of a frozen, tracked original to a text without items: the
\* handler is over and the reply still shows the former text.
C39_Witness ==
    \E t \in Tasks :
        /\ tasks[t].kind = "edit"
        /\ tasks[t].path = "frozen"
        /\ tasks[t].msg \in frozen
        /\ Tracked(tasks[t].msg)
        /\ Posted(FirstReply(tasks[t].msg))
        /\ content[tasks[t].msg].count = 0
        /\ posted[FirstReply(tasks[t].msg)].shows > 0

----------------------------------------------------------------------------
(* Claims about load_emojis.                                               *)

Loading ==
    loader.pc \in {"fetch", "read", "delete_outdated", "delete", "create",
                   "upload"}

EmojiFailures == {"HTTPException"}

\* C40: in load_emojis a failure of emoji.read(), of the emoji.delete() that
\* follows it or of create_application_emoji for one emoji is caught: the
\* loops go on, so that when load_emojis is over every fetched emoji of the
\* bot was either loaded or reported as failed, every other fetched emoji
\* was skipped, and every name either has its emoji or a reported failed
\* upload; the emojis_loaded event is clear while load_emojis runs and set
\* once it has reached its end.
C40_Remaining ==
    loader.pc = "finished" =>
        /\ \A k \in DOMAIN loader.fetched :
               LET name == loader.fetched[k].name
               IN  IF name \in EmojiNames
                   THEN \/ <<"loaded", name>> \in loader.log
                        \/ <<"failed to update", name>> \in loader.log
                   ELSE <<"skipping", name>> \in loader.log
        /\ \A name \in EmojiNames :
               \/ ghostty_emojis[name] # Missing
               \/ <<"failed to upload missing", name>> \in loader.log

C40_Event ==
    /\ Loading => ~emojis_loaded
    /\ loader.pc = "finished" => emojis_loaded
    /\ loader.pc = "raised" =>
           loader.at \in {"read_bytes", "fetch_application_emojis"}

C40_Caught ==
    \A outcome \in EmojiFailures :
        (\/ emoji_read(outcome)
         \/ loader.pc = "delete" /\ emoji_delete(outcome)
         \/ create_application_emoji(outcome)) =>
            /\ loader'.pc # "raised"
            /\ loader'.loads = loader.loads
            /\ \E k \in 1..Len(loader.queue) + 1 :
                   loader'.queue = SubSeq(loader.queue, k, Len(loader.queue))

C40_LoadEmojis == [](C40_Remaining /\ C40_Event) /\ [][C40_Caught]_vars

\* The read of the first fetched emoji failed and a later fetched emoji was
\* loaded all the same; load_emojis is over and the event is set.
C40_Witness ==
    /\ loader.pc = "finished"
    /\ emojis_loaded
    /\ \E j, k \in DOMAIN loader.fetched :
           /\ j < k
           /\ <<"failed to update", loader.fetched[j].name>> \in loader.log
           /\ <<"loaded", loader.fetched[k].name>> \in loader.log
           /\ ghostty_emojis[loader.fetched[k].name] = loader.fetched[k].id

====
